---- MODULE Spec2Model ----
(***************************************************************************)
(* Model of the sentinel authorization service (back/sentinel/src).        *)
(*                                                                         *)
(* Strings are sequences of atoms: an atom is either one of the delimiter  *)
(* characters ":", "#", "@", "*" or an opaque block of other characters    *)
(* ("documents", "doc1", ...).  format! is concatenation, split_once cuts  *)
(* at the first delimiter atom.                                            *)
(*                                                                         *)
(* The specifications share the variables:                                 *)
(*   SpecEval      one uncached check, step by step, on any small store    *)
(*   SpecZookie    concurrent generate_zookie calls against a ticking clock*)
(*   SpecValidate  validate_and_get_snapshot_time on tokens of every kind  *)
(*   Spec          the check and write handlers with the cache, two tasks  *)
(*   SpecBatch     one batch check: its sub-checks, polled in any order    *)
(*   SpecStore     insert_tuple, delete_tuple and find_direct_tuple        *)
(*   SpecWire      Zookie::to_string and Zookie::from_string on the bytes  *)
(*   SpecConsistency  the zookie comparisons and the consistency check     *)
(*   SpecHierarchy PermissionHierarchy::includes, get_level and can_access *)
(*   SpecWrite     one write request: updates, invalidations, zookie       *)
(*   SpecFaults    one uncached check on a store that may fail any lookup  *)
(*   SpecRead      read_permissions on filters of every shape              *)
(*   SpecOrder     one uncached check with both loops in any order         *)
(*   SpecSequential  checks and writes one at a time, no failing call      *)
(*   SpecRace      insert_tuple and delete_tuple of one tuple at once      *)
(*   SpecKeys      the cache key and visited key of pairs of requests      *)
(*   SpecPresent   issued zookies presented back for validation            *)
(***************************************************************************)
EXTENDS Integers, Sequences, FiniteSets, TLC

VARIABLES
    relation_tuples,   \* sentinel.relation_tuples: the table the evaluator reads
    ev_req,            \* the CheckRequest of the uncached evaluation in progress
    ev_stack,          \* call frames of check_permission_recursive, innermost first
    ev_visited,        \* visited: HashSet<String> of check_permission_uncached
    ev_result,         \* "pending" until the evaluation returns, then "allowed"/"denied"/"error"
    ev_log,            \* the keys whose body was evaluated, in order (history)
    clock,             \* Utc::now().timestamp_micros(), in ticks
    last_timestamp,    \* ZookieManager.last_timestamp (AtomicI64)
    latest_zookie,     \* the cache slot "zookie:latest"
    gen,               \* per task: the generate_zookie call in progress
    issued,            \* the generate_zookie calls that returned, in order of return (history)
    validated,         \* the last validate_and_get_snapshot_time call: input and outcome
    cache,             \* the Redis cache of check results: key -> CachedCheckResult
    proc,              \* per task: the HTTP request it is serving and where it stands
    last_write,        \* the last write request that returned a zookie (history)
    served,            \* the requests received so far
    batch,             \* the batch check request in progress and its response
    sub,               \* the sub-checks of the batch: cache key -> where it stands
    call,              \* the last call of a query or of a pure function: input and result
    user_memberships,  \* sentinel.user_memberships: index by user
    object_permissions,\* sentinel.object_permissions: index by object
    relation_index,    \* sentinel.relation_index: index by relation
    changelog,         \* sentinel.changelog: the entries recorded, in order
    last_ok,           \* per tuple identity: the last insert or delete that returned Ok (history)
    store_calls,       \* the insert_tuple and delete_tuple calls made so far
    wr                 \* the write request in progress, its response and its steps so far

evalVars == <<ev_req, ev_stack, ev_visited, ev_result, ev_log>>
zookieVars == <<clock, last_timestamp, latest_zookie, gen, issued, validated>>
serviceVars == <<cache, proc, last_write, served>>
batchVars == <<batch, sub>>
storeVars == <<user_memberships, object_permissions, relation_index, changelog,
               last_ok, store_calls>>
restVars == <<batchVars, call, storeVars, wr>>
vars == <<relation_tuples, evalVars, zookieVars, serviceVars, restVars>>

----------------------------------------------------------------------------
(* Bounds *)

MaxTuples == 3
MaxClock == 3         \* the clock runs from 0 to MaxClock ticks
TicksPerHour == 2     \* one hour (max_age_micros) in clock ticks
MaxIssue == 3         \* generate_zookie calls per run

----------------------------------------------------------------------------
(* Strings *)

S(a) == <<a>>

Contains(s, d) == \E i \in 1..Len(s) : s[i] = d

\* str::split_once(d): cut at the first occurrence of d
split_once(s, d) ==
    IF Contains(s, d)
    THEN LET i == CHOOSE k \in 1..Len(s) : s[k] = d /\ \A j \in 1..(k-1) : s[j] # d
         IN  [found |-> TRUE, head |-> SubSeq(s, 1, i-1), tail |-> SubSeq(s, i+1, Len(s))]
    ELSE [found |-> FALSE, head |-> <<>>, tail |-> <<>>]

\* format!("{}:{}#{}@{}:{}", namespace, object_id, relation, user_type, user_id)
check_key(namespace, object_id, relation, user_type, user_id) ==
    namespace \o S(":") \o object_id \o S("#") \o relation \o S("@")
        \o user_type \o S(":") \o user_id

----------------------------------------------------------------------------
(* permission_hierarchy.rs *)

viewer    == S("viewer")
commenter == S("commenter")
editor    == S("editor")
admin     == S("admin")
owner     == S("owner")

HierarchyRelations == {viewer, commenter, editor, admin, owner}

\* PermissionHierarchy::new, levels
levels == [p \in HierarchyRelations |->
             CASE p = viewer    -> 1
               [] p = commenter -> 2
               [] p = editor    -> 3
               [] p = admin     -> 4
               [] p = owner     -> 5]

\* PermissionHierarchy::new, inheritance
inheritance == [p \in HierarchyRelations |->
             CASE p = owner     -> <<admin, editor, commenter, viewer>>
               [] p = admin     -> <<editor, commenter, viewer>>
               [] p = editor    -> <<commenter, viewer>>
               [] p = commenter -> <<viewer>>
               [] p = viewer    -> <<>>]

get_level(permission) ==
    IF permission \in DOMAIN levels THEN levels[permission] ELSE 0

get_inherited_permissions(permission) ==
    <<permission>> \o
        (IF permission \in DOMAIN inheritance THEN inheritance[permission] ELSE <<>>)

----------------------------------------------------------------------------
(* models.rs, tuple_store.rs *)

\* RelationTuple, by identity (created_at is not part of the identity)
Tuple(ns, oid, rel, ut, uid) ==
    [namespace |-> ns, object_id |-> oid, relation |-> rel,
     user_type |-> ut, user_id |-> uid]

find_direct_tuple(store, t) == t \in store

find_tuples_by_object_relation(store, ns, oid, rel) ==
    {t \in store : t.namespace = ns /\ t.object_id = oid /\ t.relation = rel}

----------------------------------------------------------------------------
(* permission_checker.rs: the evaluator as the function it computes.        *)
(* Each operator returns [ok, visited]: the Ok(bool) of the Rust function   *)
(* and the visited set it leaves behind (visited is a &mut HashSet).        *)

userset == S("userset")
user    == S("user")

\* Option<String> of CheckRequest.user_type
None == [some |-> FALSE, v |-> <<>>]
Some(x) == [some |-> TRUE, v |-> x]
unwrap_or(opt, d) == IF opt.some THEN opt.v ELSE d

\* faulty variant: user_type and user_id of the looked-up tuple swapped
check_direct_permission_swapped(store, ns, oid, rel, ut, uid) ==
    find_direct_tuple(store, Tuple(ns, oid, rel, uid, ut))

\* faulty variant: a tuple of any subject of the same type counts
check_direct_permission_any_user(store, ns, oid, rel, ut, uid) ==
    \E t \in store : /\ t.namespace = ns /\ t.object_id = oid
                     /\ t.relation = rel /\ t.user_type = ut

check_direct_permission(store, ns, oid, rel, ut, uid) ==
    find_direct_tuple(store, Tuple(ns, oid, rel, ut, uid))

\* faulty variant: object and relation of the parsed userset swapped
parse_userset_swapped(user_id) ==
    LET a == split_once(user_id, ":")
        b == split_once(a.tail, "#")
    IN  IF a.found /\ b.found
        THEN [ok |-> TRUE, namespace |-> a.head, object_id |-> b.tail, relation |-> b.head]
        ELSE [ok |-> FALSE, namespace |-> <<>>, object_id |-> <<>>, relation |-> <<>>]

\* faulty variant: a user_id without '#' is read as NS:OBJ with relation member
parse_userset_lenient(user_id) ==
    LET a == split_once(user_id, ":")
        b == split_once(a.tail, "#")
    IN  IF a.found /\ b.found
        THEN [ok |-> TRUE, namespace |-> a.head, object_id |-> b.head, relation |-> b.tail]
        ELSE IF a.found
        THEN [ok |-> TRUE, namespace |-> a.head, object_id |-> a.tail, relation |-> <<"member">>]
        ELSE [ok |-> FALSE, namespace |-> <<>>, object_id |-> <<>>, relation |-> <<>>]

\* tuple.user_id.split_once(':') and then split_once('#') on the rest
parse_userset(user_id) ==
    LET a == split_once(user_id, ":")
        b == split_once(a.tail, "#")
    IN  IF a.found /\ b.found
        THEN [ok |-> TRUE, namespace |-> a.head, object_id |-> b.head, relation |-> b.tail]
        ELSE [ok |-> FALSE, namespace |-> <<>>, object_id |-> <<>>, relation |-> <<>>]

\* if tuple.user_type == "userset"
is_userset_row(t) == t.user_type = userset

\* faulty variant: the search gives up once two keys have been visited
already_visited_or_full(key, visited) == key \in visited \/ Cardinality(visited) >= 2

\* if visited.contains(&check_key) { return Ok(false); }
already_visited(key, visited) == key \in visited

RECURSIVE check_permission_recursive(_, _, _, _, _, _, _)
RECURSIVE inherited_loop(_, _, _, _, _, _, _)
RECURSIVE userset_loop(_, _, _, _, _)

\* for higher_permission in inherited_permissions { .. }
inherited_loop(store, ns, oid, perms, ut, uid, visited) ==
    IF perms = <<>>
    THEN [ok |-> FALSE, visited |-> visited]
    ELSE LET r == check_permission_recursive(store, ns, oid, Head(perms), ut, uid, visited)
         IN  IF r.ok THEN r
             ELSE inherited_loop(store, ns, oid, Tail(perms), ut, uid, r.visited)

check_inherited_permissions(store, ns, oid, rel, ut, uid, visited) ==
    inherited_loop(store, ns, oid, get_inherited_permissions(rel), ut, uid, visited)

\* for tuple in all_tuples { .. }; the rows in the order CHOOSE fixes
userset_loop(store, rows, ut, uid, visited) ==
    IF rows = {}
    THEN [ok |-> FALSE, visited |-> visited]
    ELSE LET t == CHOOSE x \in rows : TRUE
             p == parse_userset(t.user_id)
         IN  IF is_userset_row(t) /\ p.ok
             THEN LET r == check_permission_recursive(store, p.namespace, p.object_id,
                                                      p.relation, ut, uid, visited)
                  IN  IF r.ok THEN r
                      ELSE userset_loop(store, rows \ {t}, ut, uid, r.visited)
             ELSE userset_loop(store, rows \ {t}, ut, uid, visited)

check_userset_permissions(store, ns, oid, rel, ut, uid, visited) ==
    userset_loop(store, find_tuples_by_object_relation(store, ns, oid, rel), ut, uid, visited)

check_permission_recursive(store, ns, oid, rel, ut, uid, visited) ==
    LET key == check_key(ns, oid, rel, ut, uid)
        v1  == visited \cup {key}
    IN  IF already_visited(key, visited)
        THEN [ok |-> FALSE, visited |-> visited]
        ELSE IF check_direct_permission(store, ns, oid, rel, ut, uid)
        THEN [ok |-> TRUE, visited |-> v1]
        ELSE LET inh == check_inherited_permissions(store, ns, oid, rel, ut, uid, v1)
             IN  IF inh.ok THEN inh
                 ELSE check_userset_permissions(store, ns, oid, rel, ut, uid, inh.visited)

\* allowed of the CheckResponse of check_permission_uncached
check_permission_uncached(store, request) ==
    check_permission_recursive(store, request.namespace, request.object_id,
        request.relation, unwrap_or(request.user_type, user), request.user_id, {}).ok

\* CheckRequest without its zookie
CheckRequest(ns, oid, rel, uid, ut) ==
    [namespace |-> ns, object_id |-> oid, relation |-> rel, user_id |-> uid, user_type |-> ut]

----------------------------------------------------------------------------
(* zookie.rs: Zookie and its wire form.  A token is the string a client     *)
(* holds: base64 of the JSON text of the struct.  The model keeps of a      *)
(* token what decoding looks at: whether it is base64, whether the decoded  *)
(* text is a JSON object of the struct's shape, and the fields it carries.  *)

Zookie(ts, meta) == [timestamp_micros |-> ts, metadata |-> meta]

NoMetadata   == [present |-> FALSE, node_id |-> "", transaction_id |-> ""]
\* ZookieMetadata { node_id: Some(self.node_id), transaction_id: Some(uuid) }
NodeMetadata == [present |-> TRUE, node_id |-> "node", transaction_id |-> "uuid"]

Ok(z)  == [ok |-> TRUE,  zookie |-> z, error |-> ""]
Err(e) == [ok |-> FALSE, zookie |-> Zookie(0, NoMetadata), error |-> e]

\* Zookie::to_string
to_string(z) ==
    [encoding |-> "base64", json |-> "object",
     timestamp_micros |-> z.timestamp_micros, metadata |-> z.metadata]

\* Zookie::from_string
from_string(token) ==
    IF token.encoding # "base64" THEN Err("validation: Invalid zookie encoding")
    ELSE IF token.json # "object" THEN Err("validation: Invalid zookie format")
    ELSE Ok(Zookie(token.timestamp_micros, token.metadata))

max_age_micros == TicksPerHour

\* faulty variant: a zookie of exactly the current time is taken for a future one
validate_token_future_off_by_one(token, now) ==
    LET requested == from_string(token)
    IN  IF ~requested.ok THEN requested
        ELSE IF requested.zookie.timestamp_micros >= now
        THEN Err("validation: Future zookie not allowed")
        ELSE IF now - requested.zookie.timestamp_micros > max_age_micros
        THEN Err("validation: Stale zookie")
        ELSE requested

\* validate_and_get_snapshot_time, Some(zookie_str), with now = Utc::now()
validate_token(token, now) ==
    LET requested == from_string(token)
    IN  IF ~requested.ok THEN requested
        ELSE IF requested.zookie.timestamp_micros > now
        THEN Err("validation: Future zookie not allowed")
        ELSE IF now - requested.zookie.timestamp_micros > max_age_micros
        THEN Err("validation: Stale zookie")
        ELSE requested

\* the tokens a client may present
MalformedTokens ==
    {[encoding |-> "raw", json |-> "object", timestamp_micros |-> 0, metadata |-> NoMetadata],
     [encoding |-> "base64", json |-> "text", timestamp_micros |-> 0, metadata |-> NoMetadata]}

ClientTokens ==
    {to_string(Zookie(ts, m)) : ts \in 0..(MaxClock + 1), m \in {NoMetadata, NodeMetadata}}
    \cup MalformedTokens

----------------------------------------------------------------------------
(* zookie.rs: ZookieManager::generate_zookie, one step per clock read,      *)
(* atomic operation and cache write, so that calls of several tasks         *)
(* interleave.                                                              *)

Tasks == {1, 2}

\* CheckRequest.zookie: Option<String>
NoZookie == [some |-> FALSE, token |-> to_string(Zookie(0, NoMetadata))]
SomeZookie(token) == [some |-> TRUE, token |-> token]

Max(a, b) == IF a >= b THEN a ELSE b

GenIdle == [pc |-> "idle", now_micros |-> 0, final_timestamp |-> 0,
            timestamp_micros |-> 0, began |-> 0]

ZookieIdle ==
    /\ clock = 0
    /\ last_timestamp = 0
    /\ latest_zookie = [present |-> FALSE, token |-> to_string(Zookie(0, NoMetadata))]
    /\ gen = [t \in Tasks |-> GenIdle]
    /\ issued = <<>>
    /\ validated = [called |-> FALSE, token |-> to_string(Zookie(0, NoMetadata)),
                    now |-> 0, result |-> Err("")]

\* the calls begun so far
GenCalls == Len(issued) + Cardinality({t \in Tasks : gen[t].pc # "idle"})

\* let now_micros = Utc::now().timestamp_micros();
GenBegin(t) ==
    /\ gen[t].pc = "idle"
    /\ GenCalls < MaxIssue
    /\ gen' = [gen EXCEPT ![t] = [GenIdle EXCEPT !.pc = "fetch_max", !.now_micros = clock,
                                                  !.began = Len(issued)]]
    /\ UNCHANGED <<clock, last_timestamp, latest_zookie, issued, validated>>
    /\ UNCHANGED <<relation_tuples, evalVars, serviceVars, restVars>>

\* new_timestamp = last_timestamp.fetch_max(now_micros).max(now_micros);
\* if new_timestamp == now_micros { now_micros } else { fetch_add below }
GenFetchMax(t) ==
    /\ gen[t].pc = "fetch_max"
    /\ LET new_timestamp == Max(last_timestamp, gen[t].now_micros)
       IN  /\ last_timestamp' = Max(last_timestamp, gen[t].now_micros)
           /\ gen' = [gen EXCEPT ![t] =
                         IF new_timestamp = gen[t].now_micros
                         THEN [@ EXCEPT !.pc = "stamp", !.final_timestamp = gen[t].now_micros]
                         ELSE [@ EXCEPT !.pc = "fetch_add"]]
    /\ UNCHANGED <<clock, latest_zookie, issued, validated>>
    /\ UNCHANGED <<relation_tuples, evalVars, serviceVars, restVars>>

\* self.last_timestamp.fetch_add(1, Ordering::Relaxed) + 1
GenFetchAdd(t) ==
    /\ gen[t].pc = "fetch_add"
    /\ last_timestamp' = last_timestamp + 1
    /\ gen' = [gen EXCEPT ![t] = [@ EXCEPT !.pc = "stamp",
                                            !.final_timestamp = last_timestamp + 1]]
    /\ UNCHANGED <<clock, latest_zookie, issued, validated>>
    /\ UNCHANGED <<relation_tuples, evalVars, serviceVars, restVars>>

\* Zookie::with_metadata(..): timestamp_micros: Utc::now().timestamp_micros();
\* final_timestamp goes to the log line only
stamp_of(final_timestamp, now) == now

GenStamp(t) ==
    /\ gen[t].pc = "stamp"
    /\ gen' = [gen EXCEPT ![t] = [@ EXCEPT !.pc = "cache",
                  !.timestamp_micros = stamp_of(gen[t].final_timestamp, clock)]]
    /\ UNCHANGED <<clock, last_timestamp, latest_zookie, issued, validated>>
    /\ UNCHANGED <<relation_tuples, evalVars, serviceVars, restVars>>

\* self.cache_latest_zookie(&zookie).await?; Ok(zookie)
GenCache(t) ==
    /\ gen[t].pc = "cache"
    /\ \E cache_ok \in BOOLEAN :
          /\ latest_zookie' =
                 IF cache_ok
                 THEN [present |-> TRUE,
                       token |-> to_string(Zookie(gen[t].timestamp_micros, NodeMetadata))]
                 ELSE latest_zookie
          /\ issued' = Append(issued, [ok |-> cache_ok,
                                       timestamp_micros |-> gen[t].timestamp_micros,
                                       final_timestamp |-> gen[t].final_timestamp,
                                       began |-> gen[t].began, task |-> t])
    /\ gen' = [gen EXCEPT ![t] = GenIdle]
    /\ UNCHANGED <<clock, last_timestamp, validated>>
    /\ UNCHANGED <<relation_tuples, evalVars, serviceVars, restVars>>

\* a client presents a token to validate_and_get_snapshot_time
Validate ==
    /\ \E token \in ClientTokens :
          validated' = [called |-> TRUE, token |-> token, now |-> clock,
                        result |-> validate_token(token, clock)]
    /\ UNCHANGED <<clock, last_timestamp, latest_zookie, gen, issued>>
    /\ UNCHANGED <<relation_tuples, evalVars, serviceVars, restVars>>

Tick ==
    /\ clock < MaxClock
    /\ clock' = clock + 1
    /\ UNCHANGED <<last_timestamp, latest_zookie, gen, issued, validated>>
    /\ UNCHANGED <<relation_tuples, evalVars, serviceVars, restVars>>

EvalIdle ==
    /\ ev_req = CheckRequest(<<>>, <<>>, <<>>, <<>>, None)
    /\ ev_stack = <<>>
    /\ ev_visited = {}
    /\ ev_result = "pending"
    /\ ev_log = <<>>

\* no request in progress, nothing cached
ProcIdle ==
    [pc |-> "idle", kind |-> "none",
     request |-> CheckRequest(<<>>, <<>>, <<>>, <<>>, None), zookie |-> NoZookie,
     snapshot_zookie |-> Zookie(0, NoMetadata),
     allowed |-> FALSE, hit |-> FALSE, hit_zookie |-> to_string(Zookie(0, NoMetadata)),
     updates |-> 0, success_count |-> 0, errors |-> 0,
     affected_objects |-> {}, affected_users |-> {},
     inval_ok |-> TRUE, alone |-> TRUE, removed |-> {},
     status |-> 0, response_zookie |-> to_string(Zookie(0, NoMetadata)), wseq |-> 0,
     error |-> ""]

NoWrite ==
    [valid |-> FALSE, seq |-> 0, zookie |-> to_string(Zookie(0, NoMetadata)), objects |-> {},
     inval_ok |-> TRUE, alone |-> TRUE, removed |-> {}, fresh |-> FALSE, stable |-> FALSE]

ServiceIdle ==
    /\ cache = << >>
    /\ proc = [t \in Tasks |-> ProcIdle]
    /\ last_write = NoWrite
    /\ served = 0

\* no batch request received
BatchIdle ==
    [pc |-> "idle", checks |-> <<>>, zookie |-> NoZookie,
     snapshot_zookie |-> Zookie(0, NoMetadata), error |-> "",
     status |-> 0, results |-> <<>>,
     total_requests |-> 0, allowed_count |-> 0, denied_count |-> 0,
     response_zookie |-> to_string(Zookie(0, NoMetadata)),
     snapshots |-> 0, store0 |-> {}, cache0 |-> << >>]

NoCall == [fn |-> "none"]

\* the index tables and the changelog are not looked at
StoreIdle ==
    /\ user_memberships = {}
    /\ object_permissions = {}
    /\ relation_index = {}
    /\ changelog = <<>>
    /\ last_ok = << >>
    /\ store_calls = 0

\* no write request received
WriteIdle ==
    [pc |-> "idle", updates |-> <<>>, next |-> 1, success_count |-> 0, errors |-> <<>>,
     affected_objects |-> {}, affected_users |-> {},
     todo_objects |-> {}, todo_users |-> {},
     status |-> 0, zookie_issued |-> FALSE,
     response_zookie |-> to_string(Zookie(0, NoMetadata)), events |-> <<>>]

RestIdle ==
    /\ batch = BatchIdle
    /\ sub = << >>
    /\ call = NoCall
    /\ StoreIdle
    /\ wr = WriteIdle

ZookieInit == ZookieIdle /\ EvalIdle /\ ServiceIdle /\ RestIdle /\ relation_tuples = {}

ZookieNext ==
    \/ \E t \in Tasks : GenBegin(t)
    \/ \E t \in Tasks : GenFetchMax(t)
    \/ \E t \in Tasks : GenFetchAdd(t)
    \/ \E t \in Tasks : GenStamp(t)
    \/ \E t \in Tasks : GenCache(t)
    \/ Tick

SpecZookie == ZookieInit /\ [][ZookieNext]_vars

\* validation alone: tokens of every kind presented at every time
ValidateNext == Validate \/ Tick

SpecValidate == ZookieInit /\ [][ValidateNext]_vars

----------------------------------------------------------------------------
(* Properties of the zookie service (SpecZookie) *)

\* C6: zookie issuance is strictly monotonic and unique: any two zookies
\* generate returned carry distinct timestamp_micros, and a call that began
\* after another had returned carries the strictly larger one.
C6_StrictlyMonotonic ==
    \A i, j \in 1..Len(issued) :
        (i < j /\ issued[i].ok /\ issued[j].ok) =>
            /\ issued[i].timestamp_micros # issued[j].timestamp_micros
            /\ (issued[j].began >= i =>
                    issued[j].timestamp_micros > issued[i].timestamp_micros)

\* C7: validate_and_pick_snapshot on a client token returns a validation error
\* when the token does not decode, when its timestamp is greater than now, or
\* when it is older than one hour, and otherwise returns the decoded token
\* unchanged.
Decodes(token) == token.encoding = "base64" /\ token.json = "object"

----------------------------------------------------------------------------
(* permission_checker.rs: the evaluator step by step.  One frame per call   *)
(* of check_permission_recursive; the store may return the rows of          *)
(* find_tuples_by_object_relation in any order.                             *)

Frame(ns, oid, rel) ==
    [namespace |-> ns, object_id |-> oid, relation |-> rel,
     stage |-> "enter", perms |-> <<>>, rows |-> {}]

ev_user_type == unwrap_or(ev_req.user_type, user)

\* a callee returned Ok(false): its caller goes on with its loop
ReturnFalse ==
    /\ ev_stack' = Tail(ev_stack)
    /\ ev_result' = IF Tail(ev_stack) = <<>> THEN "denied" ELSE ev_result

\* faulty variant: Ok(true) ends the callee only, its caller goes on
ReturnTrue_callee_only ==
    /\ ev_stack' = Tail(ev_stack)
    /\ ev_result' = "allowed"

\* a callee returned Ok(true): every caller returns Ok(true) at once
ReturnTrue ==
    /\ ev_stack' = <<>>
    /\ ev_result' = "allowed"

\* check_permission_recursive up to the direct lookup
EvalEnter ==
    /\ ev_stack # <<>>
    /\ Head(ev_stack).stage = "enter"
    /\ LET f   == Head(ev_stack)
           key == check_key(f.namespace, f.object_id, f.relation, ev_user_type, ev_req.user_id)
       IN  IF already_visited(key, ev_visited)
           THEN /\ ReturnFalse
                /\ UNCHANGED <<ev_visited, ev_log>>
           ELSE /\ ev_visited' = ev_visited \cup {key}
                /\ ev_log' = Append(ev_log, key)
                /\ IF check_direct_permission(relation_tuples, f.namespace, f.object_id,
                                              f.relation, ev_user_type, ev_req.user_id)
                   THEN ReturnTrue
                   ELSE /\ ev_stack' = <<[f EXCEPT !.stage = "inherited",
                                            !.perms = get_inherited_permissions(f.relation)]>>
                                       \o Tail(ev_stack)
                        /\ UNCHANGED ev_result
    /\ UNCHANGED <<relation_tuples, ev_req>>
    /\ UNCHANGED <<zookieVars, serviceVars, restVars>>

\* check_inherited_permissions: the next relation of the loop, or the end of the loop
EvalInherited ==
    /\ ev_stack # <<>>
    /\ Head(ev_stack).stage = "inherited"
    /\ LET f == Head(ev_stack)
       IN  IF f.perms = <<>>
           THEN ev_stack' = <<[f EXCEPT !.stage = "userset",
                                 !.rows = find_tuples_by_object_relation(relation_tuples,
                                             f.namespace, f.object_id, f.relation)]>>
                            \o Tail(ev_stack)
           ELSE ev_stack' = <<Frame(f.namespace, f.object_id, Head(f.perms)),
                              [f EXCEPT !.perms = Tail(f.perms)]>> \o Tail(ev_stack)
    /\ UNCHANGED <<relation_tuples, ev_req, ev_visited, ev_result, ev_log>>
    /\ UNCHANGED <<zookieVars, serviceVars, restVars>>

\* check_userset_permissions: the next row of the loop, or the end of the loop
EvalUserset ==
    /\ ev_stack # <<>>
    /\ Head(ev_stack).stage = "userset"
    /\ LET f == Head(ev_stack)
       IN  IF f.rows = {}
           THEN ReturnFalse
           ELSE /\ \E t \in f.rows :
                     LET p    == parse_userset(t.user_id)
                         rest == [f EXCEPT !.rows = f.rows \ {t}]
                     IN  IF is_userset_row(t) /\ p.ok
                         THEN ev_stack' = <<Frame(p.namespace, p.object_id, p.relation), rest>>
                                          \o Tail(ev_stack)
                         ELSE ev_stack' = <<rest>> \o Tail(ev_stack)
                /\ UNCHANGED ev_result
    /\ UNCHANGED <<relation_tuples, ev_req, ev_visited, ev_log>>
    /\ UNCHANGED <<zookieVars, serviceVars, restVars>>

EvalNext == EvalEnter \/ EvalInherited \/ EvalUserset

----------------------------------------------------------------------------
(* The stores and requests of the evaluator's specification *)

documents == S("documents")
group     == S("group")
doc1      == S("doc1")
grpA      == S("A")
grpB      == S("B")
grpXY     == <<"x", "#", "y">>      \* an object id that holds a '#'
member    == S("member")
yMember   == <<"y", "#", "member">>  \* a relation name that holds a '#'
alice     == S("alice")
bob       == S("bob")

\* "NS:OBJ#REL"
userset_id(ns, oid, rel) == ns \o S(":") \o oid \o S("#") \o rel

EvalTuples ==
    {Tuple(documents, doc1, r, user, alice) : r \in {viewer, editor, owner}}
    \cup {Tuple(documents, doc1, r, userset, userset_id(group, grpA, member)) :
             r \in {viewer, editor}}
    \cup {Tuple(group, g, member, userset, userset_id(group, h, member)) :
             g \in {grpA, grpB}, h \in {grpA, grpB}}
    \cup {Tuple(group, g, member, user, alice) : g \in {grpA, grpB, grpXY}}
    \cup {Tuple(documents, doc1, viewer, userset, userset_id(group, grpXY, member)),
          Tuple(group, grpXY, member, userset, userset_id(group, grpXY, member)),
          Tuple(group, S("x"), yMember, user, alice),
          Tuple(documents, doc1, viewer, userset, S("groupA")),
          Tuple(documents, doc1, viewer, userset, group \o S(":") \o grpA)}

EvalStores == {st \in SUBSET EvalTuples : Cardinality(st) <= MaxTuples}

EvalRequests ==
    {CheckRequest(documents, doc1, r, u, ut) :
        r \in {viewer, editor, owner}, u \in {alice, bob}, ut \in {None}}
    \cup {CheckRequest(group, g, member, alice, Some(user)) : g \in {grpA, grpXY}}

EvalInit ==
    /\ ZookieIdle
    /\ ServiceIdle
    /\ RestIdle
    /\ relation_tuples \in EvalStores
    /\ ev_req \in EvalRequests
    /\ ev_stack = <<Frame(ev_req.namespace, ev_req.object_id, ev_req.relation)>>
    /\ ev_visited = {}
    /\ ev_result = "pending"
    /\ ev_log = <<>>

SpecEval == EvalInit /\ [][EvalNext]_vars

----------------------------------------------------------------------------
(* Properties of the evaluator (SpecEval) *)

EvalDone == ev_result # "pending"

\* the five-tuple of the request
RequestTuple(rel) ==
    Tuple(ev_req.namespace, ev_req.object_id, rel, ev_user_type, ev_req.user_id)

\* The step machine and the function agree on every store, request and row order.
EvalAgrees ==
    EvalDone => ((ev_result = "allowed") = check_permission_uncached(relation_tuples, ev_req))

\* No key's body is evaluated twice, and the evaluation never stops half way.
EvalNoRepeat ==
    /\ \A i, j \in 1..Len(ev_log) : i # j => ev_log[i] # ev_log[j]
    /\ Cardinality(ev_visited) = Len(ev_log)
    /\ (~EvalDone) => ENABLED EvalNext

\* C1: upward inheritance. Whenever the store holds the direct tuple (o, r, u)
\* for a relation r that strictly dominates the requested relation r' in the
\* hierarchy, the check of (o, r', u) is allowed.
C1_UpwardInheritance ==
    \A r \in HierarchyRelations :
        ( /\ EvalDone
          /\ ev_req.relation \in HierarchyRelations
          /\ get_level(r) > get_level(ev_req.relation)
          /\ RequestTuple(r) \in relation_tuples )
        => ev_result = "allowed"

\* C2: no downward grant. When every tuple of the store sits on the requested
\* object and carries a relation of strictly lower level than the requested
\* relation, the check is denied.
C2_LowerNeverGrants ==
    ( /\ EvalDone
      /\ \A t \in relation_tuples :
            /\ t.namespace = ev_req.namespace
            /\ t.object_id = ev_req.object_id
            /\ get_level(t.relation) < get_level(ev_req.relation) )
    => ev_result = "denied"

\* The graph of section 4.5: from (ns, o, r) an inherited edge leads to every
\* strictly higher relation on the same object, a userset edge to the node a
\* userset row of (ns, o, r) names.
Node(ns, oid, rel) == [namespace |-> ns, object_id |-> oid, relation |-> rel]

SpecEdges(store, n) ==
    {Node(n.namespace, n.object_id, r) :
        r \in {x \in HierarchyRelations : get_level(x) > get_level(n.relation)
                                          /\ n.relation \in HierarchyRelations}}
    \cup {Node(parse_userset(t.user_id).namespace, parse_userset(t.user_id).object_id,
               parse_userset(t.user_id).relation) :
            t \in {x \in find_tuples_by_object_relation(store, n.namespace, n.object_id,
                                                        n.relation) :
                      is_userset_row(x) /\ parse_userset(x.user_id).ok}}

RECURSIVE SpecReachable(_, _)
SpecReachable(store, nodes) ==
    LET next == nodes \cup UNION {SpecEdges(store, n) : n \in nodes}
    IN  IF next = nodes THEN nodes ELSE SpecReachable(store, next)

\* C8: cycle safety and termination. An uncached check never stops before it
\* returns, evaluates each distinct canonical key at most once, and returns
\* allowed=false when no node reachable from the request holds a direct tuple
\* for the subject.
C8_CycleSafeAndSound ==
    /\ EvalNoRepeat
    /\ ( /\ EvalDone
         /\ \A n \in SpecReachable(relation_tuples,
                        {Node(ev_req.namespace, ev_req.object_id, ev_req.relation)}) :
               Tuple(n.namespace, n.object_id, n.relation, ev_user_type, ev_req.user_id)
                   \notin relation_tuples )
       => ev_result = "denied"

\* C9: direct allow. Whenever the store holds the exact five-tuple of the
\* request, the uncached check returns allowed=true.
C9_DirectAllow ==
    (EvalDone /\ RequestTuple(ev_req.relation) \in relation_tuples)
        => ev_result = "allowed"

C9_Witness ==
    /\ ev_result = "allowed"
    /\ RequestTuple(ev_req.relation) \in relation_tuples
    /\ ev_log = <<check_key(ev_req.namespace, ev_req.object_id, ev_req.relation,
                            ev_user_type, ev_req.user_id)>>

\* C11: deny by default. When the store holds no tuple whose subject is the
\* (subject_type, subject_id) of the request, the check is denied, whatever
\* userset tuples the store holds.
SubjectTuples ==
    {t \in relation_tuples : t.user_type = ev_user_type /\ t.user_id = ev_req.user_id}

C11_DenyByDefault ==
    (EvalDone /\ SubjectTuples = {}) => ev_result = "denied"

\* bob holds nothing; the check follows doc1#viewer to the members of group A,
\* where alice is, and denies
C11_Witness ==
    /\ ev_result = "denied"
    /\ SubjectTuples = {}
    /\ ev_req.user_id = bob
    /\ Tuple(documents, doc1, ev_req.relation, userset, userset_id(group, grpA, member))
          \in relation_tuples
    /\ Tuple(group, grpA, member, user, alice) \in relation_tuples
    /\ Len(ev_log) >= 2

\* the (namespace, object, relation) triples a userset id of the stores names
UsersetTargets ==
    {Node(group, g, member) : g \in {grpA, grpB, grpXY}} \cup {Node(group, S("x"), yMember)}

\* a userset row of the requested (ns, o, r) whose subject_id is "NS2:O2#R2"
\* for the target n, while the check of n for the same subject is allowed
ExpandsTo(n) ==
    /\ \E t \in find_tuples_by_object_relation(relation_tuples, ev_req.namespace,
                                               ev_req.object_id, ev_req.relation) :
          /\ t.user_type = userset
          /\ t.user_id = userset_id(n.namespace, n.object_id, n.relation)
    /\ check_permission_uncached(relation_tuples,
          CheckRequest(n.namespace, n.object_id, n.relation, ev_req.user_id, ev_req.user_type))

\* C10 as stated: userset expansion for every subject_id "NS2:O2#R2".
C10_UsersetExpansionAnyName ==
    \A n \in UsersetTargets : (EvalDone /\ ExpandsTo(n)) => ev_result = "allowed"

\* C10 as amended: userset expansion, through any chain of userset references,
\* when neither the requested object nor the referenced userset has a ':' in
\* its namespace or a '#' in its object id.
PlainObject(ns, oid) == ~Contains(ns, ":") /\ ~Contains(oid, "#")

C10_UsersetExpansion ==
    \A n \in UsersetTargets :
        ( /\ EvalDone
          /\ PlainObject(ev_req.namespace, ev_req.object_id)
          /\ PlainObject(n.namespace, n.object_id)
          /\ ExpandsTo(n) )
        => ev_result = "allowed"

\* the same with the condition on the referenced userset alone (does not hold:
\* the key of the request can collide with the key of the userset)
UsersetExpansionPlainTarget ==
    \A n \in UsersetTargets :
        (EvalDone /\ PlainObject(n.namespace, n.object_id) /\ ExpandsTo(n))
        => ev_result = "allowed"

\* doc1#viewer -> group:A#member -> group:B#member -> alice
C10_Witness ==
    /\ relation_tuples =
          {Tuple(documents, doc1, viewer, userset, userset_id(group, grpA, member)),
           Tuple(group, grpA, member, userset, userset_id(group, grpB, member)),
           Tuple(group, grpB, member, user, alice)}
    /\ ev_req = CheckRequest(documents, doc1, viewer, alice, None)
    /\ ev_result = "allowed"
----------------------------------------------------------------------------
(* cache.rs: keys, patterns and the Redis operations the service uses *)

\* CacheKeyBuilder::check_permission_key
check_permission_key(request) ==
    <<"check", ":">> \o request.namespace \o S(":") \o request.object_id \o S("#")
        \o request.relation \o S("@") \o unwrap_or(request.user_type, user)
        \o S(":") \o request.user_id

\* CacheKeyBuilder::user_permission_pattern: "check:*@user:{user_id}"
user_permission_pattern(user_id) == <<"check", ":", "*", "@">> \o user \o S(":") \o user_id

\* faulty variant: the pattern does not name the object
object_permission_pattern_no_object(namespace, object_id) ==
    <<"check", ":">> \o namespace \o S(":") \o S("-") \o S("*")

\* CacheKeyBuilder::object_permission_pattern: "check:{namespace}:{object_id}*"
object_permission_pattern(namespace, object_id) ==
    <<"check", ":">> \o namespace \o S(":") \o object_id \o S("*")

\* Redis KEYS pattern: '*' stands for any run of text.  Names are whole atoms,
\* so a pattern ending in "doc1*" is not seen to match an object "doc10".
RECURSIVE GlobMatch(_, _)
GlobMatch(pattern, key) ==
    IF pattern = <<>> THEN key = <<>>
    ELSE IF Head(pattern) = "*"
    THEN GlobMatch(Tail(pattern), key) \/ (key # <<>> /\ GlobMatch(pattern, Tail(key)))
    ELSE key # <<>> /\ Head(key) = Head(pattern) /\ GlobMatch(Tail(pattern), Tail(key))

\* Cache::delete_pattern, when Redis answers: KEYS pattern, then DEL of the keys
delete_pattern(c, pattern) ==
    [k \in {x \in DOMAIN c : ~GlobMatch(pattern, x)} |-> c[k]]

\* Cache::set, when Redis answers
cache_set(c, key, value) ==
    [k \in DOMAIN c \cup {key} |-> IF k = key THEN value ELSE c[k]]

\* CachedCheckResult::from_check_response (cached_at is read by no one)
CachedCheckResult(allowed, zookie) == [allowed |-> allowed, original_zookie |-> zookie]

\* CheckResponse
CheckResponse(allowed, zookie) == [allowed |-> allowed, zookie |-> zookie]

\* faulty variant: the response carries the zookie stored with the entry
to_check_response_original(cached, current_zookie) ==
    CheckResponse(cached.allowed, cached.original_zookie)

\* CachedCheckResult::to_check_response
to_check_response(cached, current_zookie) ==
    CheckResponse(cached.allowed, current_zookie)

RECURSIVE delete_patterns(_, _)
delete_patterns(c, patterns) ==
    IF patterns = {} THEN c
    ELSE LET pt == CHOOSE x \in patterns : TRUE
         IN  delete_patterns(delete_pattern(c, pt), patterns \ {pt})

----------------------------------------------------------------------------
(* api_handlers.rs and permission_checker.rs: the check and write handlers, *)
(* one step per await on the store, the cache or the zookie manager.        *)

MaxRequests == 2      \* requests received per run
MaxUpdates == 1       \* updates per write request
MaxServiceClock == 1  \* the clock of the service runs from 0 to MaxServiceClock ticks

\* the tuples clients write: a grant to a group's members, the group holding
\* another group, and a user's membership of that one
SvcTuples ==
    {Tuple(documents, doc1, viewer, userset, userset_id(group, grpA, member)),
     Tuple(group, grpA, member, userset, userset_id(group, grpB, member)),
     Tuple(group, grpB, member, user, alice)}

SvcRequests ==
    {CheckRequest(documents, doc1, viewer, alice, None),
     CheckRequest(group, grpB, member, alice, Some(user))}

SvcZookies ==
    {NoZookie}
    \cup {SomeZookie(to_string(Zookie(ts, NodeMetadata))) : ts \in 0..MaxServiceClock}
    \cup {SomeZookie(token) : token \in {m \in MalformedTokens : m.encoding = "raw"}}

\* generate_zookie run without interruption: the counter after the call
last_timestamp_after(last, now) == IF Max(last, now) = now THEN Max(last, now) ELSE last + 1

\* generate_zookie run without interruption: its effect and the zookie returned
Generate(cache_ok) ==
    /\ last_timestamp' = last_timestamp_after(last_timestamp, clock)
    /\ latest_zookie' =
          IF cache_ok
          THEN [present |-> TRUE,
                token |-> to_string(Zookie(stamp_of(last_timestamp', clock), NodeMetadata))]
          ELSE latest_zookie

Generated == Zookie(stamp_of(last_timestamp_after(last_timestamp, clock), clock), NodeMetadata)

CheckInFlight(t) == proc[t].kind = "check" /\ proc[t].pc \in {"cache_get", "evaluate", "cache_set"}

\* a write between its invalidation and its response sees a check arrive
Disturbed(pr, t) ==
    [q \in Tasks |-> IF q # t /\ pr[q].pc = "write_zookie"
                     THEN [pr[q] EXCEPT !.alone = FALSE] ELSE pr[q]]

\* POST /check arrives; validate_and_get_snapshot_time
CheckBegin(t) ==
    /\ proc[t].pc \in {"idle", "done"}
    /\ served < MaxRequests
    /\ \E request \in SvcRequests, zookie \in SvcZookies, cache_ok \in BOOLEAN :
          /\ zookie.some => cache_ok
          /\ IF zookie.some
             THEN UNCHANGED <<last_timestamp, latest_zookie>>
             ELSE Generate(cache_ok)
          /\ LET snapshot == IF zookie.some THEN validate_token(zookie.token, clock)
                             ELSE IF cache_ok THEN Ok(Generated)
                             ELSE Err("cache: Cache set failed")
                 began    == [ProcIdle EXCEPT !.kind = "check", !.request = request,
                                              !.zookie = zookie, !.wseq = last_write.seq]
             IN  proc' = [Disturbed(proc, t) EXCEPT ![t] =
                             IF snapshot.ok
                             THEN [began EXCEPT !.pc = "cache_get",
                                                !.snapshot_zookie = snapshot.zookie]
                             ELSE [began EXCEPT !.pc = "done", !.status = 500,
                                                !.error = snapshot.error]]
    /\ served' = served + 1
    /\ last_write' = [last_write EXCEPT !.fresh = FALSE]
    /\ UNCHANGED <<relation_tuples, cache, clock, gen, issued, validated, evalVars, restVars>>

\* self.cache.get(&cache_key): a hit answers with the cached allowed
CheckCacheGet(t) ==
    /\ proc[t].pc = "cache_get"
    /\ LET key == check_permission_key(proc[t].request)
       IN  \E get_ok \in BOOLEAN :
              /\ ~get_ok => key \in DOMAIN cache
              /\ proc' = [proc EXCEPT ![t] =
                    IF get_ok /\ key \in DOMAIN cache
                    THEN LET response == to_check_response(cache[key],
                                               to_string(proc[t].snapshot_zookie))
                         IN  [@ EXCEPT !.pc = "done", !.status = 200, !.hit = TRUE,
                                       !.allowed = response.allowed,
                                       !.hit_zookie = cache[key].original_zookie,
                                       !.response_zookie = response.zookie]
                    ELSE [@ EXCEPT !.pc = "evaluate"]]
    /\ UNCHANGED <<relation_tuples, cache, last_write, served, zookieVars, evalVars, restVars>>

\* self.check_permission_uncached(request, &snapshot_zookie).await?
CheckEvaluate(t) ==
    /\ proc[t].pc = "evaluate"
    /\ \E store_ok \in BOOLEAN :
          proc' = [proc EXCEPT ![t] =
              IF store_ok
              THEN [@ EXCEPT !.pc = "cache_set",
                             !.allowed = check_permission_uncached(relation_tuples, proc[t].request),
                             !.response_zookie = to_string(proc[t].snapshot_zookie)]
              ELSE [@ EXCEPT !.pc = "done", !.status = 500,
                             !.error = "database: query failed"]]
    /\ UNCHANGED <<relation_tuples, cache, last_write, served, zookieVars, evalVars, restVars>>

\* self.cache.set(&cache_key, ..): a failure is logged and the response goes out
CheckCacheSet(t) ==
    /\ proc[t].pc = "cache_set"
    /\ \E set_ok \in BOOLEAN :
          cache' = IF set_ok
                   THEN cache_set(cache, check_permission_key(proc[t].request),
                                  CachedCheckResult(proc[t].allowed, proc[t].response_zookie))
                   ELSE cache
    /\ proc' = [proc EXCEPT ![t] = [@ EXCEPT !.pc = "done", !.status = 200]]
    /\ UNCHANGED <<relation_tuples, last_write, served, zookieVars, evalVars, restVars>>

\* POST /write arrives
WriteBegin(t) ==
    /\ proc[t].pc \in {"idle", "done"}
    /\ served < MaxRequests
    /\ proc' = [proc EXCEPT ![t] = [ProcIdle EXCEPT !.pc = "updating", !.kind = "write"]]
    /\ served' = served + 1
    /\ UNCHANGED <<relation_tuples, cache, last_write, zookieVars, evalVars, restVars>>

Operations == {"Insert", "Delete"}

\* insert_tuple and delete_tuple write the relation_tuples table first: a
\* failure there leaves it as it was, a failure after it leaves it written
StoreOutcomes == {"ok", "failed", "failed_after_main_table"}

apply(store, operation, tuple) ==
    IF operation = "Insert" THEN store \cup {tuple} ELSE store \ {tuple}

\* for update in &req.updates: one pass of the loop
WriteUpdate(t) ==
    /\ proc[t].pc = "updating"
    /\ proc[t].updates < MaxUpdates
    /\ \E operation \in Operations, tuple \in SvcTuples, outcome \in StoreOutcomes :
          /\ relation_tuples' = IF outcome = "failed" THEN relation_tuples
                                ELSE apply(relation_tuples, operation, tuple)
          /\ proc' = [proc EXCEPT ![t] =
                IF outcome = "ok"
                THEN [@ EXCEPT !.updates = @ + 1, !.success_count = @ + 1,
                         !.affected_objects = @ \cup {<<tuple.namespace, tuple.object_id>>},
                         !.affected_users = @ \cup (IF tuple.user_type = user
                                                    THEN {tuple.user_id} ELSE {})]
                ELSE [@ EXCEPT !.updates = @ + 1, !.errors = @ + 1]]
          /\ last_write' = [last_write EXCEPT
                               !.stable = @ /\ relation_tuples' = relation_tuples]
    /\ UNCHANGED <<cache, served, zookieVars, evalVars, restVars>>

\* if success_count > 0: invalidate_object_cache for each affected object, then
\* invalidate_user_cache for each affected user; a failure is logged only
WriteInvalidate(t) ==
    /\ proc[t].pc = "updating"
    /\ \E failed_objects \in SUBSET proc[t].affected_objects,
          failed_users \in SUBSET proc[t].affected_users :
          /\ cache' =
                IF proc[t].success_count > 0
                THEN delete_patterns(cache,
                        {object_permission_pattern(o[1], o[2]) :
                             o \in proc[t].affected_objects \ failed_objects}
                        \cup {user_permission_pattern(u) :
                                 u \in proc[t].affected_users \ failed_users})
                ELSE cache
          /\ proc' = [proc EXCEPT ![t] =
                [@ EXCEPT !.pc = "write_zookie",
                          !.inval_ok = (failed_objects = {} /\ failed_users = {}),
                          !.removed = {<<k, cache[k].allowed>> :
                                          k \in DOMAIN cache \ DOMAIN cache'},
                          !.alone = \A q \in Tasks : ~CheckInFlight(q)]]
    /\ UNCHANGED <<relation_tuples, last_write, served, zookieVars, evalVars, restVars>>

\* data.zookie_manager.generate_zookie().await?; then the response
WriteZookie(t) ==
    /\ proc[t].pc = "write_zookie"
    /\ \E cache_ok \in BOOLEAN :
          /\ Generate(cache_ok)
          /\ proc' = [proc EXCEPT ![t] =
                IF cache_ok
                THEN [ProcIdle EXCEPT !.pc = "done", !.kind = "write",
                               !.status = IF proc[t].errors = 0 THEN 200 ELSE 400,
                               !.response_zookie = to_string(Generated)]
                ELSE [ProcIdle EXCEPT !.pc = "done", !.kind = "write", !.status = 500,
                                      !.error = "cache: Cache set failed"]]
          /\ last_write' =
                IF cache_ok
                THEN [valid |-> TRUE, seq |-> last_write.seq + 1,
                      zookie |-> to_string(Generated),
                      objects |-> proc[t].affected_objects,
                      inval_ok |-> proc[t].inval_ok, alone |-> proc[t].alone,
                      removed |-> proc[t].removed,
                      fresh |-> TRUE, stable |-> TRUE]
                ELSE last_write
    /\ UNCHANGED <<relation_tuples, cache, served, clock, gen, issued, validated, evalVars, restVars>>

\* the clock of the service
ServiceTick ==
    /\ clock < MaxServiceClock
    /\ clock' = clock + 1
    /\ UNCHANGED <<last_timestamp, latest_zookie, gen, issued, validated>>
    /\ UNCHANGED <<relation_tuples, evalVars, serviceVars, restVars>>

\* the service at rest: any store, and in the cache the answers of earlier
\* checks of this store, each made with a zookie of time 0
Init ==
    /\ relation_tuples \in SUBSET SvcTuples
    /\ \E cached \in SUBSET SvcRequests :
          cache = [k \in {check_permission_key(r) : r \in cached} |->
                      LET r == CHOOSE x \in cached : check_permission_key(x) = k
                      IN  CachedCheckResult(check_permission_uncached(relation_tuples, r),
                                            to_string(Zookie(0, NodeMetadata)))]
    /\ proc = [t \in Tasks |-> ProcIdle]
    /\ last_write = NoWrite
    /\ served = 0
    /\ ZookieIdle
    /\ EvalIdle
    /\ RestIdle

Next ==
    \/ \E t \in Tasks : CheckBegin(t)
    \/ \E t \in Tasks : CheckCacheGet(t)
    \/ \E t \in Tasks : CheckEvaluate(t)
    \/ \E t \in Tasks : CheckCacheSet(t)
    \/ \E t \in Tasks : WriteBegin(t)
    \/ \E t \in Tasks : WriteUpdate(t)
    \/ \E t \in Tasks : WriteInvalidate(t)
    \/ \E t \in Tasks : WriteZookie(t)
    \/ ServiceTick

Spec == Init /\ [][Next]_vars

----------------------------------------------------------------------------
(* Properties of the service (Spec) *)

Answered(t) == proc[t].pc = "done" /\ proc[t].kind = "check" /\ proc[t].status = 200

Truth(request) == check_permission_uncached(relation_tuples, request)

\* the check of task t began after the last write returned, and the store has
\* not been written since that write returned
FollowsLastWrite(t) ==
    /\ last_write.valid
    /\ last_write.stable
    /\ proc[t].wseq = last_write.seq

\* C3: read-after-write: a check that presents the zookie W a write returned
\* answers as the evaluator does on the store holding that write and all
\* earlier ones, cached result or not.
C3_ReadAfterWrite ==
    \A t \in Tasks :
        (/\ Answered(t)
         /\ FollowsLastWrite(t)
         /\ proc[t].zookie = SomeZookie(last_write.zookie))
        => proc[t].allowed = Truth(proc[t].request)

\* C5: a check never answers from a cache entry whose original zookie is
\* earlier than the zookie the request asks for.
C5_NoStaleCacheHit ==
    \A t \in Tasks :
        (Answered(t) /\ proc[t].hit /\ proc[t].zookie.some)
        => ~(proc[t].hit_zookie.timestamp_micros
                < proc[t].snapshot_zookie.timestamp_micros)

EntriesOf(o) == {k \in DOMAIN cache : GlobMatch(<<"check", ":">> \o o[1] \o S(":") \o o[2] \o S("*"), k)}

----------------------------------------------------------------------------
(* permission_checker.rs: batch_check_permissions, one step per await: the  *)
(* batch's own validate_and_get_snapshot_time, then one check_permission    *)
(* future for every unique cache key, polled in any order, then the join.   *)

MaxBatch == 3      \* checks per batch request

\* a CheckRequest of the batch: the five fields of the check and its zookie
BatchItem(request, zookie) == [request |-> request, zookie |-> zookie]

RawToken == CHOOSE m \in MalformedTokens : m.encoding = "raw"

BatchItems == {BatchItem(r, z) : r \in SvcRequests, z \in {NoZookie, SomeZookie(RawToken)}}

BatchChecks == UNION {[1..n -> BatchItems] : n \in 0..MaxBatch}

BatchZookies ==
    {NoZookie, SomeZookie(to_string(Zookie(0, NodeMetadata))), SomeZookie(RawToken)}

ValidationErrors ==
    {"validation: Invalid zookie encoding", "validation: Invalid zookie format",
     "validation: Future zookie not allowed", "validation: Stale zookie"}

\* validate_and_get_snapshot_time: what it returns
snapshot_time(zookie, cache_ok) ==
    IF zookie.some THEN validate_token(zookie.token, clock)
    ELSE IF cache_ok THEN Ok(Generated)
    ELSE Err("cache: Cache set failed")

\* validate_and_get_snapshot_time: what it does to the manager and the cache
SnapshotEffect(zookie, cache_ok) ==
    IF zookie.some THEN UNCHANGED <<last_timestamp, latest_zookie>> ELSE Generate(cache_ok)

\* format!("{}:{}#{}@{}", namespace, object_id, relation, user_id)
request_info(r) ==
    r.namespace \o S(":") \o r.object_id \o S("#") \o r.relation \o S("@") \o r.user_id

\* format!("{} (ERROR)", request_info)
error_info(info) == info \o <<" (ERROR)">>

\* unique_requests: cache key -> the indices of the checks with that key
unique_requests(checks) ==
    [k \in {check_permission_key(checks[i].request) : i \in 1..Len(checks)} |->
        {i - 1 : i \in {j \in 1..Len(checks) : check_permission_key(checks[j].request) = k}}]

\* indices[0]: the indices were pushed in the order of the list
first_index(indices) == CHOOSE i \in indices : \A j \in indices : i <= j

\* the future of one unique key before its first poll
SubIdle(indices) ==
    [pc |-> "begin", indices |-> indices, snapshot_zookie |-> Zookie(0, NoMetadata),
     ok |-> FALSE, allowed |-> FALSE, error |-> "", hit |-> FALSE]

BatchCheckItem(index, allowed, info) ==
    [request_index |-> index, allowed |-> allowed, request_info |-> info]

\* faulty variant: only the first index of a key gets a result
fan_out_first_only(s, info) ==
    {BatchCheckItem(first_index(s.indices), s.ok /\ s.allowed,
                    IF s.ok THEN info ELSE error_info(info))}

\* the items of one future: the result for every index of its key
fan_out(s, info) ==
    {BatchCheckItem(index, s.ok /\ s.allowed, IF s.ok THEN info ELSE error_info(info))
        : index \in s.indices}

\* all_results.sort_by_key(|item| item.request_index) of the flattened groups
sort_by_key(items) ==
    CHOOSE r \in [1..Cardinality(items) -> items] :
        \A i, j \in 1..Cardinality(items) :
            i < j => r[i] # r[j] /\ r[i].request_index <= r[j].request_index

\* BatchCheckResponse::new
BatchCheckResponse(results) ==
    LET allowed_count == Cardinality({i \in 1..Len(results) : results[i].allowed})
    IN  [total_requests |-> Len(results), allowed_count |-> allowed_count,
         denied_count |-> Len(results) - allowed_count]

\* POST /batch_check arrives; validate_and_get_snapshot_time of the batch
BatchBegin ==
    /\ batch.pc = "idle"
    /\ \E checks \in BatchChecks, zookie \in BatchZookies, cache_ok \in BOOLEAN :
          /\ zookie.some => cache_ok
          /\ SnapshotEffect(zookie, cache_ok)
          /\ LET snapshot == snapshot_time(zookie, cache_ok)
                 began    == [BatchIdle EXCEPT !.checks = checks, !.zookie = zookie,
                                               !.snapshots = 1, !.store0 = relation_tuples,
                                               !.cache0 = cache]
                 unique   == unique_requests(checks)
             IN  IF snapshot.ok
                 THEN /\ batch' = [began EXCEPT !.pc = "running",
                                                !.snapshot_zookie = snapshot.zookie]
                      /\ sub' = [k \in DOMAIN unique |-> SubIdle(unique[k])]
                 ELSE /\ batch' = [began EXCEPT !.pc = "done", !.status = 500,
                                                !.error = snapshot.error]
                      /\ sub' = sub
    /\ UNCHANGED <<relation_tuples, cache, clock, gen, issued, validated>>
    /\ UNCHANGED <<proc, last_write, served, call, storeVars, wr, evalVars>>

\* the request a future checks: request.checks[indices[0]]
check_request_of(k) == batch.checks[first_index(sub[k].indices) + 1]

\* checker.check_permission(check_request): validate_and_get_snapshot_time
SubBegin(k) ==
    /\ batch.pc = "running"
    /\ k \in DOMAIN sub
    /\ sub[k].pc = "begin"
    /\ \E cache_ok \in BOOLEAN :
          /\ check_request_of(k).zookie.some => cache_ok
          /\ SnapshotEffect(check_request_of(k).zookie, cache_ok)
          /\ LET snapshot == snapshot_time(check_request_of(k).zookie, cache_ok)
             IN  sub' = [sub EXCEPT ![k] =
                    IF snapshot.ok
                    THEN [@ EXCEPT !.pc = "cache_get", !.snapshot_zookie = snapshot.zookie]
                    ELSE [@ EXCEPT !.pc = "done", !.ok = FALSE, !.error = snapshot.error]]
    /\ batch' = [batch EXCEPT !.snapshots = @ + 1]
    /\ UNCHANGED <<relation_tuples, cache, clock, gen, issued, validated>>
    /\ UNCHANGED <<proc, last_write, served, call, storeVars, wr, evalVars>>

\* checker.check_permission(check_request): self.cache.get(&cache_key)
SubCacheGet(k) ==
    /\ batch.pc = "running"
    /\ k \in DOMAIN sub
    /\ sub[k].pc = "cache_get"
    /\ \E get_ok \in BOOLEAN :
          /\ ~get_ok => k \in DOMAIN cache
          /\ sub' = [sub EXCEPT ![k] =
                IF get_ok /\ k \in DOMAIN cache
                THEN [@ EXCEPT !.pc = "done", !.ok = TRUE, !.hit = TRUE,
                               !.allowed = cache[k].allowed]
                ELSE [@ EXCEPT !.pc = "evaluate"]]
    /\ UNCHANGED <<relation_tuples, cache, batch, zookieVars>>
    /\ UNCHANGED <<proc, last_write, served, call, storeVars, wr, evalVars>>

\* checker.check_permission(check_request): check_permission_uncached(..).await?
SubEvaluate(k) ==
    /\ batch.pc = "running"
    /\ k \in DOMAIN sub
    /\ sub[k].pc = "evaluate"
    /\ \E store_ok \in BOOLEAN :
          sub' = [sub EXCEPT ![k] =
              IF store_ok
              THEN [@ EXCEPT !.pc = "cache_set", !.ok = TRUE,
                             !.allowed = check_permission_uncached(relation_tuples,
                                                                   check_request_of(k).request)]
              ELSE [@ EXCEPT !.pc = "done", !.ok = FALSE, !.error = "database: query failed"]]
    /\ UNCHANGED <<relation_tuples, cache, batch, zookieVars>>
    /\ UNCHANGED <<proc, last_write, served, call, storeVars, wr, evalVars>>

\* checker.check_permission(check_request): self.cache.set(&cache_key, ..)
SubCacheSet(k) ==
    /\ batch.pc = "running"
    /\ k \in DOMAIN sub
    /\ sub[k].pc = "cache_set"
    /\ \E set_ok \in BOOLEAN :
          cache' = IF set_ok
                   THEN cache_set(cache, k, CachedCheckResult(sub[k].allowed,
                                                              to_string(sub[k].snapshot_zookie)))
                   ELSE cache
    /\ sub' = [sub EXCEPT ![k] = [@ EXCEPT !.pc = "done"]]
    /\ UNCHANGED <<relation_tuples, batch, zookieVars>>
    /\ UNCHANGED <<proc, last_write, served, call, storeVars, wr, evalVars>>

\* join_all, flatten, sort, BatchCheckResponse::new, response.zookie
BatchJoin ==
    /\ batch.pc = "running"
    /\ \A k \in DOMAIN sub : sub[k].pc = "done"
    /\ LET all_results ==
              sort_by_key(UNION {fan_out(sub[k], request_info(check_request_of(k).request))
                                    : k \in DOMAIN sub})
           response == BatchCheckResponse(all_results)
       IN  batch' = [batch EXCEPT !.pc = "done", !.status = 200,
                                  !.results = all_results,
                                  !.total_requests = response.total_requests,
                                  !.allowed_count = response.allowed_count,
                                  !.denied_count = response.denied_count,
                                  !.response_zookie = to_string(batch.snapshot_zookie)]
    /\ UNCHANGED <<relation_tuples, cache, sub, zookieVars>>
    /\ UNCHANGED <<proc, last_write, served, call, storeVars, wr, evalVars>>

BatchKeys == {check_permission_key(r) : r \in SvcRequests}

BatchStores == {{}, {Tuple(group, grpB, member, user, alice)}, SvcTuples}

\* the service at rest before the batch arrives: a store, and in the cache
\* the answers of earlier checks of this store
BatchInit ==
    /\ relation_tuples \in BatchStores
    /\ \E cached \in SUBSET SvcRequests :
          cache = [k \in {check_permission_key(r) : r \in cached} |->
                      LET r == CHOOSE x \in cached : check_permission_key(x) = k
                      IN  CachedCheckResult(check_permission_uncached(relation_tuples, r),
                                            to_string(Zookie(0, NodeMetadata)))]
    /\ proc = [t \in Tasks |-> ProcIdle]
    /\ last_write = NoWrite
    /\ served = 0
    /\ ZookieIdle
    /\ EvalIdle
    /\ RestIdle

BatchNext ==
    \/ BatchBegin
    \/ \E k \in BatchKeys : SubBegin(k)
    \/ \E k \in BatchKeys : SubCacheGet(k)
    \/ \E k \in BatchKeys : SubEvaluate(k)
    \/ \E k \in BatchKeys : SubCacheSet(k)
    \/ BatchJoin
    \/ ServiceTick

SpecBatch == BatchInit /\ [][BatchNext]_vars

----------------------------------------------------------------------------
(* Properties of the batch check.                                           *)

BatchAnswered == batch.pc = "done" /\ batch.status = 200

\* check_permission of one item alone succeeds: its zookie, if any, validates
AloneOk(item) == item.zookie.some => validate_token(item.zookie.token, clock).ok

\* what check_permission of one item alone answers against the store and
\* the cache the batch found, when neither fails
AloneAllowed(item) ==
    LET key == check_permission_key(item.request)
    IN  IF key \in DOMAIN batch.cache0 THEN batch.cache0[key].allowed
        ELSE check_permission_uncached(batch.store0, item.request)

\* neither the store nor the cache failed under a sub-check
NoSubFault == \A k \in DOMAIN sub : sub[k].error \in ValidationErrors \cup {""}

\* C12: the batch gives every index the allowed value that the check of that
\* request alone gives against the same store and cache, and the counts of
\* the individual answers, also when the list holds duplicates
C12_BatchEquivalence ==
    (BatchAnswered /\ NoSubFault) =>
        /\ \A i \in 1..Len(batch.checks) :
              AloneOk(batch.checks[i]) =>
                  /\ i <= Len(batch.results)
                  /\ batch.results[i].allowed = AloneAllowed(batch.checks[i])
        /\ (\A i \in 1..Len(batch.checks) : AloneOk(batch.checks[i])) =>
              /\ batch.allowed_count =
                    Cardinality({i \in 1..Len(batch.checks) : AloneAllowed(batch.checks[i])})
              /\ batch.denied_count =
                    Cardinality({i \in 1..Len(batch.checks) : ~AloneAllowed(batch.checks[i])})

\* C13: the batch calls validate_and_get_snapshot_time once, before the
\* sub-checks, and every sub-check works under the snapshot that call chose
C13_OneSnapshot ==
    batch.pc # "idle" =>
        /\ batch.snapshots = 1
        /\ \A k \in DOMAIN sub :
              sub[k].pc \in {"cache_get", "evaluate", "cache_set"} =>
                  sub[k].snapshot_zookie = batch.snapshot_zookie

\* C14: the whole batch fails only on a batch zookie that does not validate;
\* a failed sub-check turns the items of its key, and no others, into
\* allowed = false with the error marker
C14_WholesaleOnlyOnValidation ==
    /\ (batch.pc = "done" /\ batch.status # 200) =>
          batch.zookie.some /\ batch.error \in ValidationErrors
    /\ BatchAnswered =>
          \A k \in DOMAIN sub :
              LET info == request_info(check_request_of(k).request)
              IN  \A index \in sub[k].indices :
                     /\ index + 1 <= Len(batch.results)
                     /\ batch.results[index + 1] =
                           IF sub[k].ok THEN BatchCheckItem(index, sub[k].allowed, info)
                           ELSE BatchCheckItem(index, FALSE, error_info(info))

\* C15: one result per index 0..N-1, in order; total_requests = N; the two
\* counts add up to N and allowed_count counts the allowed results; indices
\* of one cache key carry one allowed value
C15_BatchResponseShape ==
    BatchAnswered =>
        LET N == Len(batch.checks)
        IN  /\ Len(batch.results) = N
            /\ \A i \in 1..N : batch.results[i].request_index = i - 1
            /\ batch.total_requests = N
            /\ batch.allowed_count + batch.denied_count = N
            /\ batch.allowed_count = Cardinality({i \in 1..N : batch.results[i].allowed})
            /\ \A i, j \in 1..N :
                  check_permission_key(batch.checks[i].request)
                      = check_permission_key(batch.checks[j].request)
                  => batch.results[i].allowed = batch.results[j].allowed

\* a batch of three with a duplicate, answered with both values
C15_Witness ==
    /\ BatchAnswered
    /\ Len(batch.checks) = 3
    /\ batch.checks[1].request = batch.checks[3].request
    /\ batch.checks[1].request # batch.checks[2].request
    /\ batch.results[1].allowed /\ batch.results[3].allowed /\ ~batch.results[2].allowed
    /\ batch.allowed_count = 2 /\ batch.denied_count = 1

----------------------------------------------------------------------------
(* Properties of the handlers under cache failures.                         *)

CacheErrors == {"cache: Cache set failed"}

\* C16: no check and no write request ends in an error that a failed cache
\* operation raised; a failed cache lookup sends the check to the tuple store
C16_CacheFailuresNeverFail ==
    \A t \in Tasks :
        proc[t].pc = "done" => proc[t].error \notin CacheErrors

----------------------------------------------------------------------------
(* tuple_store.rs: ScyllaTupleStore.  insert_tuple and delete_tuple run     *)
(* five statements in a row, each followed by `?`: the main table, the      *)
(* three index tables, the changelog.  A call that fails at one statement   *)
(* has run the statements before it.                                        *)

MaxStoreOps == 3      \* insert_tuple and delete_tuple calls per run

Statements == 5       \* statements of one insert_tuple or delete_tuple

StoreTuples ==
    {Tuple(group, grpB, member, user, alice),
     Tuple(documents, doc1, viewer, userset, userset_id(group, grpB, member))}

\* faulty variant: every entry is recorded as an INSERT
ChangelogEntry_always_insert(tuple, operation) ==
    [tuple |-> tuple, operation |-> "INSERT"]

\* ChangelogEntry::new (id and timestamp are read by no one here)
ChangelogEntry(tuple, operation) ==
    [tuple |-> tuple, operation |-> IF operation = "Insert" THEN "INSERT" ELSE "DELETE"]

\* faulty variant: the INSERT into relation_index of a tuple the main table
\* already held takes the row away
insert_tuple_toggle_index(tuple, ran) ==
    /\ relation_tuples'    = IF ran >= 1 THEN relation_tuples \cup {tuple} ELSE relation_tuples
    /\ user_memberships'   = IF ran >= 2 THEN user_memberships \cup {tuple} ELSE user_memberships
    /\ object_permissions' = IF ran >= 3 THEN object_permissions \cup {tuple}
                             ELSE object_permissions
    /\ relation_index'     = IF ran >= 4
                             THEN IF tuple \in relation_tuples THEN relation_index \ {tuple}
                                  ELSE relation_index \cup {tuple}
                             ELSE relation_index
    /\ changelog'          = IF ran >= 5 THEN Append(changelog, ChangelogEntry(tuple, "Insert"))
                             ELSE changelog

\* insert_tuple, of which the first `ran` statements succeeded
insert_tuple(tuple, ran) ==
    /\ relation_tuples'    = IF ran >= 1 THEN relation_tuples \cup {tuple} ELSE relation_tuples
    /\ user_memberships'   = IF ran >= 2 THEN user_memberships \cup {tuple} ELSE user_memberships
    /\ object_permissions' = IF ran >= 3 THEN object_permissions \cup {tuple}
                             ELSE object_permissions
    /\ relation_index'     = IF ran >= 4 THEN relation_index \cup {tuple} ELSE relation_index
    /\ changelog'          = IF ran >= 5 THEN Append(changelog, ChangelogEntry(tuple, "Insert"))
                             ELSE changelog

\* delete_tuple, of which the first `ran` statements succeeded
delete_tuple(tuple, ran) ==
    /\ relation_tuples'    = IF ran >= 1 THEN relation_tuples \ {tuple} ELSE relation_tuples
    /\ user_memberships'   = IF ran >= 2 THEN user_memberships \ {tuple} ELSE user_memberships
    /\ object_permissions' = IF ran >= 3 THEN object_permissions \ {tuple}
                             ELSE object_permissions
    /\ relation_index'     = IF ran >= 4 THEN relation_index \ {tuple} ELSE relation_index
    /\ changelog'          = IF ran >= 5 THEN Append(changelog, ChangelogEntry(tuple, "Delete"))
                             ELSE changelog

\* a call of insert_tuple: Ok(()) when all statements ran
InsertTuple ==
    /\ store_calls < MaxStoreOps
    /\ \E tuple \in StoreTuples, ran \in 0..Statements :
          /\ insert_tuple(tuple, ran)
          /\ last_ok' = IF ran = Statements THEN [last_ok EXCEPT ![tuple] = "Insert"]
                        ELSE last_ok
          /\ call' = [fn |-> "insert_tuple", tuple |-> tuple, ok |-> ran = Statements]
    /\ store_calls' = store_calls + 1
    /\ UNCHANGED <<evalVars, zookieVars, serviceVars, batchVars, wr>>

\* a call of delete_tuple: Ok(()) when all statements ran
DeleteTuple ==
    /\ store_calls < MaxStoreOps
    /\ \E tuple \in StoreTuples, ran \in 0..Statements :
          /\ delete_tuple(tuple, ran)
          /\ last_ok' = IF ran = Statements THEN [last_ok EXCEPT ![tuple] = "Delete"]
                        ELSE last_ok
          /\ call' = [fn |-> "delete_tuple", tuple |-> tuple, ok |-> ran = Statements]
    /\ store_calls' = store_calls + 1
    /\ UNCHANGED <<evalVars, zookieVars, serviceVars, batchVars, wr>>

\* a call of find_direct_tuple: the row of the main table with the identity
\* of the tuple, or a database error
FindDirectTuple ==
    /\ \E tuple \in StoreTuples, query_ok \in BOOLEAN :
          call' = [fn |-> "find_direct_tuple", tuple |-> tuple, ok |-> query_ok,
                   found |-> IF query_ok /\ find_direct_tuple(relation_tuples, tuple)
                             THEN Some(tuple) ELSE None,
                   last_ok |-> last_ok[tuple]]
    /\ UNCHANGED <<relation_tuples, storeVars, evalVars, zookieVars, serviceVars, batchVars, wr>>

StoreInit ==
    /\ relation_tuples = {}
    /\ user_memberships = {}
    /\ object_permissions = {}
    /\ relation_index = {}
    /\ changelog = <<>>
    /\ last_ok = [tuple \in StoreTuples |-> "none"]
    /\ store_calls = 0
    /\ call = NoCall
    /\ batch = BatchIdle
    /\ sub = << >>
    /\ wr = WriteIdle
    /\ ZookieIdle
    /\ EvalIdle
    /\ ServiceIdle

StoreNext ==
    \/ InsertTuple
    \/ DeleteTuple
    \/ FindDirectTuple

SpecStore == StoreInit /\ [][StoreNext]_vars

\* C17: find_direct_tuple answers Some(t) exactly when the last insert_tuple
\* or delete_tuple of t's identity that returned Ok was an insert, and None
\* when it was a delete or when no insert of t returned Ok
C17_FindDirectFollowsLastOp ==
    (call.fn = "find_direct_tuple" /\ call.ok) =>
        IF call.last_ok = "Insert" THEN call.found = Some(call.tuple)
        ELSE call.found = None

----------------------------------------------------------------------------
(* zookie.rs: Zookie::to_string and Zookie::from_string, spelled out.  The  *)
(* struct is serialised by serde_json to a JSON text, the bytes of the text *)
(* are encoded by base64 STANDARD; decoding goes the way back through       *)
(* String::from_utf8.  A text is a sequence of one-character strings, a     *)
(* byte an integer, a base64 symbol its index in the alphabet.  Strings are *)
(* ASCII without control characters, timestamps fit the integers of TLC.    *)

MaxStrLen == 2      \* characters of a node_id or transaction_id

\* struct Zookie with Option<ZookieMetadata>, struct ZookieMetadata with two Option<String>
ZookieStruct(ts, metadata) == [timestamp_micros |-> ts, metadata |-> metadata]

ZookieMetadata(node_id, transaction_id) ==
    [node_id |-> node_id, transaction_id |-> transaction_id]

Letters == <<"a", "b", "c", "d", "e", "f", "g", "h", "i", "j", "k", "l", "m",
             "n", "o", "p", "q", "r", "s", "t", "u", "v", "w", "x", "y", "z">>

Digits == <<"0", "1", "2", "3", "4", "5", "6", "7", "8", "9">>

Range(seq) == {seq[i] : i \in 1..Len(seq)}

IndexOf(seq, c) == CHOOSE i \in 1..Len(seq) : seq[i] = c

Punctuation == {"_", "{", "}", ":", ",", "\"", "\\", "-"}

Chars == Range(Letters) \cup Range(Digits) \cup Punctuation

\* the byte of a character
ascii(c) ==
    IF c \in Range(Letters) THEN 96 + IndexOf(Letters, c)
    ELSE IF c \in Range(Digits) THEN 47 + IndexOf(Digits, c)
    ELSE CASE c = "_" -> 95 [] c = "{" -> 123 [] c = "}" -> 125 [] c = ":" -> 58
           [] c = "," -> 44 [] c = "\"" -> 34 [] c = "\\" -> 92 [] c = "-" -> 45

\* the character of a byte below 128; "?" stands for the characters not listed
char_of(byte) ==
    IF \E c \in Chars : ascii(c) = byte THEN CHOOSE c \in Chars : ascii(c) = byte ELSE "?"

as_bytes(text) == [i \in 1..Len(text) |-> ascii(text[i])]

\* String::from_utf8: bytes of 128 and more do not occur in the texts modelled
from_utf8(bytes) ==
    IF \E i \in 1..Len(bytes) : bytes[i] >= 128
    THEN [ok |-> FALSE, v |-> <<>>]
    ELSE [ok |-> TRUE, v |-> [i \in 1..Len(bytes) |-> char_of(bytes[i])]]

RECURSIVE digits_of(_)
digits_of(n) ==
    IF n < 10 THEN <<Digits[n + 1]>>
    ELSE Append(digits_of(n \div 10), Digits[(n % 10) + 1])

\* serde_json writes an i64 with itoa
itoa(n) == IF n < 0 THEN <<"-">> \o digits_of(0 - n) ELSE digits_of(n)

\* faulty variant: a backslash is written as it is
RECURSIVE escape_quotes_only(_)
escape_quotes_only(str) ==
    IF str = <<>> THEN <<>>
    ELSE (IF str[1] = "\"" THEN <<"\\", "\"">> ELSE <<str[1]>>)
         \o escape_quotes_only(Tail(str))

\* serde_json format_escaped_str_contents
RECURSIVE escape(_)
escape(str) ==
    IF str = <<>> THEN <<>>
    ELSE (IF str[1] \in {"\"", "\\"} THEN <<"\\", str[1]>> ELSE <<str[1]>>)
         \o escape(Tail(str))

null == <<"n", "u", "l", "l">>

serialize_str(str) == <<"\"">> \o escape(str) \o <<"\"">>

serialize_option_str(o) == IF o.some THEN serialize_str(o.v) ELSE null

key_timestamp_micros == <<"\"", "t", "i", "m", "e", "s", "t", "a", "m", "p", "_", "m", "i", "c", "r", "o", "s", "\"">>

key_metadata == <<"\"", "m", "e", "t", "a", "d", "a", "t", "a", "\"">>

key_node_id == <<"\"", "n", "o", "d", "e", "_", "i", "d", "\"">>

key_transaction_id == <<"\"", "t", "r", "a", "n", "s", "a", "c", "t", "i", "o", "n", "_", "i", "d", "\"">>

\* #[derive(Serialize)] of ZookieMetadata
serialize_metadata(m) ==
    <<"{">> \o key_node_id \o <<":">> \o serialize_option_str(m.node_id)
        \o <<",">> \o key_transaction_id \o <<":">> \o serialize_option_str(m.transaction_id)
        \o <<"}">>

\* serde_json::to_string(self): #[derive(Serialize)] of Zookie
serialize(z) ==
    <<"{">> \o key_timestamp_micros \o <<":">> \o itoa(z.timestamp_micros)
        \o <<",">> \o key_metadata \o <<":">>
        \o (IF z.metadata.some THEN serialize_metadata(z.metadata.v) ELSE null)
        \o <<"}">>

Pad == 64     \* the symbol '=' of the base64 alphabet, after the 64 digits

\* BASE64_STANDARD.encode
RECURSIVE base64_encode(_)
base64_encode(bytes) ==
    IF bytes = <<>> THEN <<>>
    ELSE IF Len(bytes) = 1
    THEN <<bytes[1] \div 4, (bytes[1] % 4) * 16, Pad, Pad>>
    ELSE IF Len(bytes) = 2
    THEN <<bytes[1] \div 4, (bytes[1] % 4) * 16 + bytes[2] \div 16, (bytes[2] % 16) * 4, Pad>>
    ELSE <<bytes[1] \div 4, (bytes[1] % 4) * 16 + bytes[2] \div 16,
           (bytes[2] % 16) * 4 + bytes[3] \div 64, bytes[3] % 64>>
         \o base64_encode(SubSeq(bytes, 4, Len(bytes)))

\* BASE64_STANDARD.decode of whole groups of four symbols: padding only in
\* the last group, and no bits set behind the last byte
RECURSIVE base64_decode_groups(_)
base64_decode_groups(symbols) ==
    IF symbols = <<>> THEN [ok |-> TRUE, v |-> <<>>]
    ELSE LET a == symbols[1]
             b == symbols[2]
             c == symbols[3]
             d == symbols[4]
             last == Len(symbols) = 4
             rest == base64_decode_groups(SubSeq(symbols, 5, Len(symbols)))
             invalid == [ok |-> FALSE, v |-> <<>>]
         IN  IF a = Pad \/ b = Pad THEN invalid
             ELSE IF c = Pad
             THEN IF last /\ d = Pad /\ b % 16 = 0
                  THEN [ok |-> TRUE, v |-> <<a * 4 + b \div 16>>] ELSE invalid
             ELSE IF d = Pad
             THEN IF last /\ c % 4 = 0
                  THEN [ok |-> TRUE, v |-> <<a * 4 + b \div 16, (b % 16) * 16 + c \div 4>>]
                  ELSE invalid
             ELSE IF rest.ok
                  THEN [ok |-> TRUE,
                        v |-> <<a * 4 + b \div 16, (b % 16) * 16 + c \div 4, (c % 4) * 64 + d>>
                              \o rest.v]
                  ELSE invalid

base64_decode(symbols) ==
    IF Len(symbols) % 4 # 0 THEN [ok |-> FALSE, v |-> <<>>]
    ELSE base64_decode_groups(symbols)

ParseError == [ok |-> FALSE, v |-> <<>>, rest |-> <<>>]

Parsed(v, rest) == [ok |-> TRUE, v |-> v, rest |-> rest]

\* the text starts with the literal
expect(text, literal) ==
    IF Len(text) >= Len(literal) /\ SubSeq(text, 1, Len(literal)) = literal
    THEN Parsed(literal, SubSeq(text, Len(literal) + 1, Len(text)))
    ELSE ParseError

RECURSIVE parse_digits(_, _)
parse_digits(text, acc) ==
    IF text # <<>> /\ text[1] \in Range(Digits)
    THEN parse_digits(Tail(text), acc * 10 + (IndexOf(Digits, text[1]) - 1))
    ELSE Parsed(acc, text)

\* serde_json: an integer into an i64 field
parse_i64(text) ==
    LET negative == text # <<>> /\ text[1] = "-"
        body == IF negative THEN Tail(text) ELSE text
    IN  IF body = <<>> \/ body[1] \notin Range(Digits) THEN ParseError
        ELSE IF body[1] = "0" /\ Len(body) >= 2 /\ body[2] \in Range(Digits) THEN ParseError
        ELSE LET d == parse_digits(body, 0)
             IN  Parsed(IF negative THEN 0 - d.v ELSE d.v, d.rest)

\* serde_json: the characters of a string up to the closing quote; of the
\* escapes, the two that escape() writes
RECURSIVE parse_chars(_, _)
parse_chars(text, acc) ==
    IF text = <<>> THEN ParseError
    ELSE IF text[1] = "\"" THEN Parsed(acc, Tail(text))
    ELSE IF text[1] = "\\"
    THEN IF Len(text) >= 2 /\ text[2] \in {"\"", "\\"}
         THEN parse_chars(SubSeq(text, 3, Len(text)), Append(acc, text[2]))
         ELSE ParseError
    ELSE parse_chars(Tail(text), Append(acc, text[1]))

\* serde_json: null or a string into an Option<String> field
parse_option_str(text) ==
    IF expect(text, null).ok THEN Parsed(None, expect(text, null).rest)
    ELSE IF text # <<>> /\ text[1] = "\""
    THEN LET str == parse_chars(Tail(text), <<>>)
         IN  IF str.ok THEN Parsed(Some(str.v), str.rest) ELSE ParseError
    ELSE ParseError

\* #[derive(Deserialize)] of ZookieMetadata, fields in the order written
parse_metadata(text) ==
    LET k1 == expect(text, <<"{">> \o key_node_id \o <<":">>)
        v1 == parse_option_str(k1.rest)
        k2 == expect(v1.rest, <<",">> \o key_transaction_id \o <<":">>)
        v2 == parse_option_str(k2.rest)
        k3 == expect(v2.rest, <<"}">>)
    IN  IF k1.ok /\ v1.ok /\ k2.ok /\ v2.ok /\ k3.ok
        THEN Parsed(ZookieMetadata(v1.v, v2.v), k3.rest)
        ELSE ParseError

\* serde_json::from_str::<Zookie>, fields in the order written
deserialize(text) ==
    LET k1 == expect(text, <<"{">> \o key_timestamp_micros \o <<":">>)
        v1 == parse_i64(k1.rest)
        k2 == expect(v1.rest, <<",">> \o key_metadata \o <<":">>)
        v2 == IF expect(k2.rest, null).ok THEN Parsed(None, expect(k2.rest, null).rest)
              ELSE LET m == parse_metadata(k2.rest)
                   IN  IF m.ok THEN Parsed(Some(m.v), m.rest) ELSE ParseError
        k3 == expect(v2.rest, <<"}">>)
    IN  IF k1.ok /\ v1.ok /\ k2.ok /\ v2.ok /\ k3.ok /\ k3.rest = <<>>
        THEN Parsed(ZookieStruct(v1.v, v2.v), <<>>)
        ELSE ParseError

\* Zookie::to_string
Zookie_to_string(z) == base64_encode(as_bytes(serialize(z)))

\* Zookie::from_string
Zookie_from_string(encoded) ==
    LET json == base64_decode(encoded)
        json_str == from_utf8(json.v)
        zookie == deserialize(json_str.v)
    IN  IF ~json.ok THEN [ok |-> FALSE, error |-> "validation: Invalid zookie encoding"]
        ELSE IF ~json_str.ok THEN [ok |-> FALSE, error |-> "validation: Invalid zookie UTF-8"]
        ELSE IF ~zookie.ok THEN [ok |-> FALSE, error |-> "validation: Invalid zookie format"]
        ELSE [ok |-> TRUE, zookie |-> zookie.v]

WireChars == {"n", "\"", "\\"}

WireStrings == UNION {[1..n -> WireChars] : n \in 0..MaxStrLen}

WireOptionStrings == {None} \cup {Some(str) : str \in WireStrings}

WireTimestamps == {0 - 1234567, 0 - 1, 0, 7, 10, 1700000000}

WireZookies ==
    {ZookieStruct(ts, None) : ts \in WireTimestamps}
    \cup {ZookieStruct(ts, Some(ZookieMetadata(n, t)))
             : ts \in WireTimestamps, n \in WireOptionStrings, t \in WireOptionStrings}

\* z.to_string()
ZookieToString ==
    /\ call.fn = "Zookie::to_string"
    /\ call.pc = "zookie"
    /\ call' = [call EXCEPT !.pc = "encoded", !.encoded = Zookie_to_string(call.zookie)]
    /\ UNCHANGED <<relation_tuples, evalVars, zookieVars, serviceVars, batchVars, storeVars, wr>>

\* Zookie::from_string(&encoded)
ZookieFromString ==
    /\ call.fn = "Zookie::to_string"
    /\ call.pc = "encoded"
    /\ call' = [call EXCEPT !.pc = "decoded", !.decoded = Zookie_from_string(call.encoded)]
    /\ UNCHANGED <<relation_tuples, evalVars, zookieVars, serviceVars, batchVars, storeVars, wr>>

WireInit ==
    /\ \E z \in WireZookies :
          call = [fn |-> "Zookie::to_string", pc |-> "zookie", zookie |-> z,
                  encoded |-> <<>>, decoded |-> [ok |-> FALSE, error |-> ""]]
    /\ relation_tuples = {}
    /\ batch = BatchIdle
    /\ sub = << >>
    /\ StoreIdle
    /\ wr = WriteIdle
    /\ ZookieIdle
    /\ EvalIdle
    /\ ServiceIdle

WireNext ==
    \/ ZookieToString
    \/ ZookieFromString

SpecWire == WireInit /\ [][WireNext]_vars

\* C18: decoding the string of a zookie succeeds and gives back the zookie:
\* the same timestamp_micros and the same metadata, present or absent
C18_RoundTrip ==
    (call.fn = "Zookie::to_string" /\ call.pc = "decoded") =>
        /\ call.decoded.ok
        /\ call.decoded.zookie.timestamp_micros = call.zookie.timestamp_micros
        /\ call.decoded.zookie.metadata = call.zookie.metadata

\* a zookie of a negative time whose node_id holds a quote and a backslash
\* and whose transaction_id is absent went through both conversions
C18_Witness ==
    /\ call.fn = "Zookie::to_string"
    /\ call.pc = "decoded"
    /\ call.decoded.ok
    /\ call.zookie.timestamp_micros < 0
    /\ call.zookie.metadata = Some(ZookieMetadata(Some(<<"\"", "\\">>), None))
    /\ call.decoded.zookie = call.zookie
    /\ Len(call.encoded) % 4 = 0

----------------------------------------------------------------------------
(* zookie.rs: the comparisons of zookies and ensure_consistency_after_write *)

\* Zookie::compare_timestamp
compare_timestamp(self, other) ==
    IF self.timestamp_micros < other.timestamp_micros THEN 0 - 1
    ELSE IF self.timestamp_micros > other.timestamp_micros THEN 1
    ELSE 0

\* Zookie::is_newer_than
is_newer_than(self, other) == self.timestamp_micros > other.timestamp_micros

\* faulty variant: a zookie of the same time does not count
is_at_least_strict(self, other) == self.timestamp_micros > other.timestamp_micros

\* Zookie::is_at_least
is_at_least(self, other) == self.timestamp_micros >= other.timestamp_micros

\* ZookieManager::ensure_consistency_after_write, with now_micros = Utc::now()
ensure_consistency_after_write(write_zookie, read_zookie, now_micros) ==
    IF read_zookie.some
    THEN IF is_at_least(read_zookie.v, write_zookie)
         THEN [ok |-> TRUE, v |-> TRUE]
         ELSE [ok |-> TRUE, v |-> FALSE]
    ELSE [ok |-> TRUE, v |-> now_micros >= write_zookie.timestamp_micros]

\* the zookies compared: of every time up to one tick past the clock's end,
\* with and without metadata
ComparedZookies ==
    {Zookie(ts, meta) : ts \in 0..(MaxClock + 1), meta \in {NoMetadata, NodeMetadata}}

\* a call of ensure_consistency_after_write
EnsureConsistency ==
    /\ \E write_zookie \in ComparedZookies,
          read_zookie \in {None} \cup {Some(z) : z \in ComparedZookies} :
          call' = [fn |-> "ensure_consistency_after_write",
                   write_zookie |-> write_zookie, read_zookie |-> read_zookie,
                   now |-> clock,
                   result |-> ensure_consistency_after_write(write_zookie, read_zookie, clock)]
    /\ UNCHANGED <<relation_tuples, evalVars, zookieVars, serviceVars, batchVars, storeVars, wr>>

\* the three comparisons of one zookie with another
CompareZookies ==
    /\ \E self \in ComparedZookies, other \in ComparedZookies :
          call' = [fn |-> "compare_timestamp", self |-> self, other |-> other,
                   compare_timestamp |-> compare_timestamp(self, other),
                   is_newer_than |-> is_newer_than(self, other),
                   is_at_least |-> is_at_least(self, other)]
    /\ UNCHANGED <<relation_tuples, evalVars, zookieVars, serviceVars, batchVars, storeVars, wr>>

ConsistencyNext ==
    \/ EnsureConsistency
    \/ CompareZookies
    \/ Tick

SpecConsistency == ZookieInit /\ [][ConsistencyNext]_vars

\* C19: ensure_consistency_after_write returns Ok(true) exactly when the read
\* zookie is not older than the write zookie, or, without a read zookie, when
\* the clock is not before the write zookie; it never returns an error; the
\* three comparisons say the same and look at timestamp_micros only
C19_ConsistencyAfterWrite ==
    /\ call.fn = "ensure_consistency_after_write" =>
          /\ call.result.ok
          /\ call.read_zookie.some =>
                /\ call.result.v <=> (call.read_zookie.v.timestamp_micros
                                          >= call.write_zookie.timestamp_micros)
                /\ call.result.v <=>
                      compare_timestamp(call.read_zookie.v, call.write_zookie) >= 0
                /\ is_newer_than(call.read_zookie.v, call.write_zookie) => call.result.v
          /\ ~call.read_zookie.some =>
                (call.result.v <=> call.now >= call.write_zookie.timestamp_micros)
    /\ call.fn = "compare_timestamp" =>
          /\ call.compare_timestamp =
                (IF call.self.timestamp_micros < call.other.timestamp_micros THEN 0 - 1
                 ELSE IF call.self.timestamp_micros = call.other.timestamp_micros THEN 0
                 ELSE 1)
          /\ call.is_newer_than <=> call.compare_timestamp = 1
          /\ call.is_at_least <=> call.compare_timestamp >= 0

\* a read zookie of the write zookie's very time, with other metadata, passes
C19_Witness ==
    /\ call.fn = "ensure_consistency_after_write"
    /\ call.read_zookie.some
    /\ call.read_zookie.v.timestamp_micros = call.write_zookie.timestamp_micros
    /\ call.read_zookie.v.metadata # call.write_zookie.metadata
    /\ call.now < call.write_zookie.timestamp_micros
    /\ call.result = [ok |-> TRUE, v |-> TRUE]

----------------------------------------------------------------------------
(* permission_hierarchy.rs: PermissionHierarchy::includes                   *)

\* faulty variant: the list of the lower permission is searched for the higher
includes_reversed(higher_permission, lower_permission) ==
    IF higher_permission = lower_permission THEN TRUE
    ELSE IF lower_permission \in DOMAIN inheritance
    THEN Contains(inheritance[lower_permission], higher_permission)
    ELSE FALSE

\* PermissionHierarchy::includes
includes(higher_permission, lower_permission) ==
    IF higher_permission = lower_permission THEN TRUE
    ELSE IF higher_permission \in DOMAIN inheritance
    THEN Contains(inheritance[higher_permission], lower_permission)
    ELSE FALSE

\* the names asked about: the five of the hierarchy and two it does not know
PermissionNames == HierarchyRelations \cup {member, S("guest")}

\* includes and get_level asked about three names
Includes ==
    /\ \E a \in PermissionNames, b \in PermissionNames, c \in PermissionNames :
          call' = [fn |-> "includes", a |-> a, b |-> b, c |-> c,
                   a_includes_b |-> includes(a, b),
                   b_includes_c |-> includes(b, c),
                   a_includes_c |-> includes(a, c),
                   level_a |-> get_level(a), level_b |-> get_level(b)]
    /\ UNCHANGED <<relation_tuples, evalVars, zookieVars, serviceVars, batchVars, storeVars, wr>>

\* faulty variant: the held level has to be above the required one
can_access_strict(user_permission, required_permission) ==
    get_level(user_permission) > get_level(required_permission)

\* PermissionHierarchy::can_access
can_access(user_permission, required_permission) ==
    LET user_level == get_level(user_permission)
        required_level == get_level(required_permission)
    IN  user_level >= required_level

\* get_level and can_access asked about two names
CanAccess ==
    /\ \E held \in PermissionNames, required \in PermissionNames :
          call' = [fn |-> "can_access", held |-> held, required |-> required,
                   level_held |-> get_level(held), level_required |-> get_level(required),
                   result |-> can_access(held, required)]
    /\ UNCHANGED <<relation_tuples, evalVars, zookieVars, serviceVars, batchVars, storeVars, wr>>

HierarchyNext ==
    \/ Includes
    \/ CanAccess

SpecHierarchy == ZookieInit /\ [][HierarchyNext]_vars

\* C20: includes is transitive; includes(A, B) implies level(A) >= level(B)
\* for names the hierarchy knows and names it does not; includes(A, A)
\* holds; includes(viewer, editor) does not
C20_HierarchyInvariant ==
    call.fn = "includes" =>
        /\ (call.a_includes_b /\ call.b_includes_c) => call.a_includes_c
        /\ call.a_includes_b => call.level_a >= call.level_b
        /\ call.a = call.b => call.a_includes_b
        /\ (call.a = viewer /\ call.b = editor) => ~call.a_includes_b

\* owner includes editor, editor includes viewer, and so owner includes viewer
C20_Witness ==
    /\ call.fn = "includes"
    /\ call.a = owner /\ call.b = editor /\ call.c = viewer
    /\ call.a_includes_b /\ call.b_includes_c /\ call.a_includes_c
    /\ call.level_a = 5 /\ call.level_b = 3

\* the level the hierarchy gives a name: 1..5 for its five names, 0 otherwise
FixedLevel(name) ==
    IF name = viewer THEN 1 ELSE IF name = commenter THEN 2 ELSE IF name = editor THEN 3
    ELSE IF name = admin THEN 4 ELSE IF name = owner THEN 5 ELSE 0

\* C21: get_level gives the five names their fixed levels and every other
\* name 0; can_access(held, required) is true exactly when the level of held
\* is at least the level of required: editor reaches viewer, owner reaches
\* editor, viewer does not reach editor
C21_LevelsAndCanAccess ==
    call.fn = "can_access" =>
        /\ call.level_held = FixedLevel(call.held)
        /\ call.level_required = FixedLevel(call.required)
        /\ call.result <=> FixedLevel(call.held) >= FixedLevel(call.required)
        /\ (call.held = editor /\ call.required = viewer) => call.result
        /\ (call.held = owner /\ call.required = editor) => call.result
        /\ (call.held = viewer /\ call.required = editor) => ~call.result

\* a name the hierarchy does not know is given level 0 and reaches nothing
\* the hierarchy knows, but reaches another unknown name
C21_Witness ==
    /\ call.fn = "can_access"
    /\ call.held = member /\ call.required = S("guest")
    /\ call.level_held = 0 /\ call.level_required = 0
    /\ call.result

----------------------------------------------------------------------------
(* Properties of the handlers: the status of the response.                  *)

\* C22: a check whose zookie is malformed, stale or of the future is answered
\* with HTTP 400; HTTP 500 answers tuple-store and internal errors only
C22_ValidationErrorIs400 ==
    \A t \in Tasks :
        (proc[t].pc = "done" /\ proc[t].kind = "check") =>
            /\ proc[t].error \in ValidationErrors => proc[t].status = 400
            /\ proc[t].status = 500 => proc[t].error = "database: query failed"

----------------------------------------------------------------------------
(* api_handlers.rs: write_permissions, one request, one step per await: an  *)
(* insert_tuple or delete_tuple per update, a delete_pattern per affected   *)
(* object and per affected user, generate_zookie.  The store is the four    *)
(* tables and the changelog of tuple_store.rs.                              *)

MaxWriteUpdates == 2     \* updates of the write request

\* TupleUpdate { operation, tuple }
TupleUpdate(operation, tuple) == [operation |-> operation, tuple |-> tuple]

WriteRequests ==
    UNION {[1..n -> {TupleUpdate(o, t) : o \in Operations, t \in StoreTuples}]
              : n \in 0..MaxWriteUpdates}

\* faulty variant: the subject of every tuple counts as a user
affected_users_of_any_type(tuple) == {tuple.user_id}

\* if tuple.user_type == "user" { affected_users.insert(tuple.user_id) }
affected_users_of(tuple) == IF tuple.user_type = user THEN {tuple.user_id} ELSE {}

\* where the handler goes when the loop over the updates is left
after_updates(w) ==
    IF w.next <= Len(w.updates) THEN [w EXCEPT !.pc = "updating"]
    ELSE IF w.success_count > 0
    THEN [w EXCEPT !.pc = "invalidate_objects",
                   !.todo_objects = w.affected_objects, !.todo_users = w.affected_users]
    ELSE [w EXCEPT !.pc = "write_zookie"]

\* where the handler goes when the loop over the affected objects is left
after_objects(w) ==
    IF w.todo_objects # {} THEN w
    ELSE IF w.todo_users # {} THEN [w EXCEPT !.pc = "invalidate_users"]
    ELSE [w EXCEPT !.pc = "write_zookie"]

\* where the handler goes when the loop over the affected users is left
after_users(w) == IF w.todo_users # {} THEN w ELSE [w EXCEPT !.pc = "write_zookie"]

\* POST /write arrives
WrBegin ==
    /\ wr.pc = "idle"
    /\ \E updates \in WriteRequests :
          wr' = after_updates([WriteIdle EXCEPT !.updates = updates])
    /\ UNCHANGED <<relation_tuples, storeVars, serviceVars, zookieVars, evalVars, batchVars, call>>

\* for update in &req.updates: one pass, insert_tuple or delete_tuple
WrUpdate ==
    /\ wr.pc = "updating"
    /\ LET update == wr.updates[wr.next]
           tuple == update.tuple
       IN  \E ran \in 0..Statements :
              /\ IF update.operation = "Insert" THEN insert_tuple(tuple, ran)
                 ELSE delete_tuple(tuple, ran)
              /\ wr' = after_updates(
                    IF ran = Statements
                    THEN [wr EXCEPT
                            !.next = @ + 1, !.success_count = @ + 1,
                            !.affected_objects = @ \cup {<<tuple.namespace, tuple.object_id>>},
                            !.affected_users = @ \cup affected_users_of(tuple),
                            !.events = Append(@, [kind |-> "store", index |-> wr.next,
                                                  ran |-> ran, ok |-> TRUE])]
                    ELSE [wr EXCEPT
                            !.next = @ + 1, !.errors = Append(@, wr.next),
                            !.events = Append(@, [kind |-> "store", index |-> wr.next,
                                                  ran |-> ran, ok |-> FALSE])])
    /\ UNCHANGED <<last_ok, store_calls, serviceVars, zookieVars, evalVars, batchVars, call>>

\* for (namespace, object_id) in affected_objects: invalidate_object_cache
WrInvalidateObject ==
    /\ wr.pc = "invalidate_objects"
    /\ \E o \in wr.todo_objects, delete_ok \in BOOLEAN :
          LET pattern == object_permission_pattern(o[1], o[2])
          IN  /\ cache' = IF delete_ok THEN delete_pattern(cache, pattern) ELSE cache
              /\ wr' = after_objects(
                    [wr EXCEPT !.todo_objects = @ \ {o},
                               !.events = Append(@, [kind |-> "invalidate", pattern |-> pattern,
                                                     ok |-> delete_ok])])
    /\ UNCHANGED <<relation_tuples, storeVars, proc, last_write, served>>
    /\ UNCHANGED <<zookieVars, evalVars, batchVars, call>>

\* for user_id in affected_users: invalidate_user_cache
WrInvalidateUser ==
    /\ wr.pc = "invalidate_users"
    /\ \E u \in wr.todo_users, delete_ok \in BOOLEAN :
          LET pattern == user_permission_pattern(u)
          IN  /\ cache' = IF delete_ok THEN delete_pattern(cache, pattern) ELSE cache
              /\ wr' = after_users(
                    [wr EXCEPT !.todo_users = @ \ {u},
                               !.events = Append(@, [kind |-> "invalidate", pattern |-> pattern,
                                                     ok |-> delete_ok])])
    /\ UNCHANGED <<relation_tuples, storeVars, proc, last_write, served>>
    /\ UNCHANGED <<zookieVars, evalVars, batchVars, call>>

\* data.zookie_manager.generate_zookie().await?; then the response
WrZookie ==
    /\ wr.pc = "write_zookie"
    /\ \E cache_ok \in BOOLEAN :
          /\ Generate(cache_ok)
          /\ wr' = [wr EXCEPT
                !.pc = "done",
                !.status = IF ~cache_ok THEN 500 ELSE IF wr.errors = <<>> THEN 200 ELSE 400,
                !.zookie_issued = cache_ok,
                !.response_zookie = IF cache_ok THEN to_string(Generated) ELSE @,
                !.events = Append(@, [kind |-> "zookie", ok |-> cache_ok])]
    /\ UNCHANGED <<relation_tuples, storeVars, serviceVars, evalVars, batchVars, call>>
    /\ UNCHANGED <<clock, gen, issued, validated>>

\* the service at rest before the write arrives: the four tables agree, and
\* the cache holds answers of earlier checks of this store
WriteInit ==
    /\ relation_tuples \in SUBSET StoreTuples
    /\ user_memberships = relation_tuples
    /\ object_permissions = relation_tuples
    /\ relation_index = relation_tuples
    /\ changelog = <<>>
    /\ last_ok = << >>
    /\ store_calls = 0
    /\ \E cached \in SUBSET SvcRequests :
          cache = [k \in {check_permission_key(r) : r \in cached} |->
                      LET r == CHOOSE x \in cached : check_permission_key(x) = k
                      IN  CachedCheckResult(check_permission_uncached(relation_tuples, r),
                                            to_string(Zookie(0, NodeMetadata)))]
    /\ proc = [t \in Tasks |-> ProcIdle]
    /\ last_write = NoWrite
    /\ served = 0
    /\ wr = WriteIdle
    /\ call = NoCall
    /\ batch = BatchIdle
    /\ sub = << >>
    /\ ZookieIdle
    /\ EvalIdle

WriteNext ==
    \/ WrBegin
    \/ WrUpdate
    \/ WrInvalidateObject
    \/ WrInvalidateUser
    \/ WrZookie

SpecWrite == WriteInit /\ [][WriteNext]_vars

----------------------------------------------------------------------------
(* Properties of the write request.                                         *)

StoreEvents == {i \in 1..Len(wr.events) : wr.events[i].kind = "store"}

InvalidateEvents == {i \in 1..Len(wr.events) : wr.events[i].kind = "invalidate"}

ZookieEvents == {i \in 1..Len(wr.events) : wr.events[i].kind = "zookie"}

\* the updates whose insert_tuple or delete_tuple returned Ok
Succeeded == {wr.events[i].index : i \in {j \in StoreEvents : wr.events[j].ok}}

\* C23: a failed update does not stop the others; the failed ones are
\* returned with the successful count as HTTP 400, with a new zookie when an
\* update succeeded; a write whose updates all succeed returns HTTP 200
\* with a new zookie
C23_PartialWrite ==
    wr.pc = "done" =>
        /\ {wr.events[i].index : i \in StoreEvents} = 1..Len(wr.updates)
        /\ wr.success_count = Cardinality(Succeeded)
        /\ Range(wr.errors) = (1..Len(wr.updates)) \ Succeeded
        /\ wr.errors # <<>> => wr.status = 400
        /\ (wr.errors # <<>> /\ wr.success_count > 0) => wr.zookie_issued
        /\ wr.errors = <<>> => (wr.status = 200 /\ wr.zookie_issued)

\* C24: an insert or delete whose four table writes succeed and whose
\* changelog append fails still reports success: the update is counted as
\* successful and its object is invalidated
C24_ChangelogFailureRecovered ==
    \A i \in StoreEvents :
        wr.events[i].ran = Statements - 1 =>
            /\ wr.events[i].ok
            /\ wr.pc \in {"write_zookie", "done"} =>
                  LET tuple == wr.updates[wr.events[i].index].tuple
                  IN  \E j \in InvalidateEvents :
                         wr.events[j].pattern
                             = object_permission_pattern(tuple.namespace, tuple.object_id)

\* the tuples of the updates that succeeded
SucceededTuples == {wr.updates[index].tuple : index \in Succeeded}

\* C29: the inserts and deletes of a write come before its first cache
\* invalidation and the write zookie after its last; the object pattern is
\* invalidated for every object of a successful update, the user pattern
\* for the user_id of the successful updates of user_type "user" only
C29_WriteOrdering ==
    /\ \A i \in StoreEvents, j \in InvalidateEvents : i < j
    /\ \A i \in StoreEvents \cup InvalidateEvents, j \in ZookieEvents : i < j
    /\ wr.pc \in {"write_zookie", "done"} =>
          /\ Cardinality(StoreEvents) = Len(wr.updates)
          /\ {wr.events[j].pattern : j \in InvalidateEvents} =
                {object_permission_pattern(t.namespace, t.object_id) : t \in SucceededTuples}
                \cup {user_permission_pattern(t.user_id)
                         : t \in {x \in SucceededTuples : x.user_type = user}}
    /\ wr.pc = "done" => Cardinality(ZookieEvents) = 1

\* both updates succeeded, one on a user and one on a userset: two object
\* patterns and one user pattern were invalidated, a cached answer went,
\* then the zookie was issued
C29_Witness ==
    /\ wr.pc = "done"
    /\ wr.zookie_issued
    /\ Len(wr.updates) = 2
    /\ wr.success_count = 2
    /\ {t.user_type : t \in SucceededTuples} = {user, userset}
    /\ Cardinality(InvalidateEvents) = 3
    /\ \A j \in InvalidateEvents : wr.events[j].ok
    /\ Len(wr.events) = 6
    /\ cache = << >>

----------------------------------------------------------------------------
(* permission_checker.rs: check_permission past the cache miss, with a      *)
(* tuple store that may fail any lookup (SpecFaults).  The evaluator runs   *)
(* step by step as above; each of its two store calls may return Err.       *)

\* faulty variant: a failed lookup counts as nothing found
on_store_error_not_found(result) == "denied"

\* the `?` after a tuple-store call: Err leaves every caller at once
on_store_error(result) == "error"

StoreFault(step) ==
    [fn |-> "store_error", step |-> step, depth |-> Len(ev_stack)]

\* self.tuple_store.find_direct_tuple(&tuple).await? returns Err
EvalDirectFault ==
    /\ ev_stack # <<>>
    /\ Head(ev_stack).stage = "enter"
    /\ LET f   == Head(ev_stack)
           key == check_key(f.namespace, f.object_id, f.relation, ev_user_type, ev_req.user_id)
       IN  /\ ~already_visited(key, ev_visited)
           /\ ev_visited' = ev_visited \cup {key}
           /\ ev_log' = Append(ev_log, key)
    /\ ev_stack' = <<>>
    /\ ev_result' = on_store_error(ev_result)
    /\ call' = StoreFault(IF Len(ev_stack) = 1 THEN "direct"
                          ELSE IF ev_stack[2].stage = "inherited" THEN "inherited"
                          ELSE "userset")
    /\ UNCHANGED <<relation_tuples, ev_req>>
    /\ UNCHANGED <<zookieVars, serviceVars, batchVars, storeVars, wr>>

\* self.tuple_store.find_tuples_by_object_relation(..).await? returns Err
EvalRowsFault ==
    /\ ev_stack # <<>>
    /\ Head(ev_stack).stage = "inherited"
    /\ Head(ev_stack).perms = <<>>
    /\ ev_stack' = <<>>
    /\ ev_result' = on_store_error(ev_result)
    /\ call' = StoreFault("rows")
    /\ UNCHANGED <<relation_tuples, ev_req, ev_visited, ev_log>>
    /\ UNCHANGED <<zookieVars, serviceVars, batchVars, storeVars, wr>>

\* check_permission after check_permission_uncached: Err goes to the caller,
\* Ok is cached (a failed cache write is only logged) and returned
EvalRespond ==
    /\ ev_result # "pending"
    /\ call.fn # "check_permission"
    /\ \E set_ok \in BOOLEAN :
          /\ cache' = IF ev_result \in {"allowed", "denied"} /\ set_ok
                      THEN cache_set(cache, check_permission_key(ev_req),
                                     CachedCheckResult(ev_result = "allowed",
                                                       to_string(Zookie(clock, NodeMetadata))))
                      ELSE cache
          /\ ev_result = "error" => set_ok
    /\ call' = [fn |-> "check_permission",
                faulted |-> (call.fn = "store_error"),
                ok |-> (ev_result # "error"),
                allowed |-> (ev_result = "allowed"),
                error |-> IF ev_result = "error" THEN "database: query failed" ELSE ""]
    /\ UNCHANGED <<relation_tuples, evalVars, zookieVars, proc, last_write, served>>
    /\ UNCHANGED <<batchVars, storeVars, wr>>

FaultsNext ==
    \/ EvalEnter
    \/ EvalInherited
    \/ EvalUserset
    \/ EvalDirectFault
    \/ EvalRowsFault
    \/ EvalRespond

SpecFaults == EvalInit /\ [][FaultsNext]_vars

----------------------------------------------------------------------------
(* Properties of the evaluator under store faults (SpecFaults) *)

\* a lookup of this evaluation has failed
Faulted ==
    \/ call.fn = "store_error"
    \/ call.fn = "check_permission" /\ call.faulted

\* C25: a tuple-store error in any lookup of the evaluator, at any depth, is
\* fatal for the check: the check returns that error, never allowed or
\* denied, and no cache entry is written for the request's key
C25_StoreErrorIsFatal ==
    Faulted =>
        /\ ev_result = "error"
        /\ check_permission_key(ev_req) \notin DOMAIN cache
        /\ call.fn = "check_permission" =>
              /\ ~call.ok
              /\ ~call.allowed
              /\ call.error = "database: query failed"

\* a direct lookup two calls below the request failed, after other lookups
\* had answered, and the check has returned the error
C25_Witness ==
    /\ call.fn = "check_permission"
    /\ call.faulted
    /\ ~call.ok
    /\ Len(ev_log) >= 3
    /\ cache = << >>

\* the failure may come in the rows lookup and in a direct lookup reached
\* through the inherited loop or through a userset row
C25_WitnessSteps ==
    /\ call.fn = "store_error"
    /\ call.step = "userset"
    /\ call.depth >= 3

----------------------------------------------------------------------------
(* api_handlers.rs: read_permissions (SpecRead) *)

\* RelationTupleFilter: five optional fields
RelationTupleFilter(namespace, object_id, relation, user_type, user_id) ==
    [namespace |-> namespace, object_id |-> object_id, relation |-> relation,
     user_type |-> user_type, user_id |-> user_id]

\* SELECT .. FROM sentinel.relation_tuples WHERE namespace = ? AND object_id = ?
find_tuples_by_object(store, ns, oid) ==
    {t \in store : t.namespace = ns /\ t.object_id = oid}

\* SELECT .. FROM sentinel.user_memberships WHERE user_id = ? AND user_type = 'user'
find_user_memberships(memberships, user_id) ==
    {t \in memberships : t.user_id = user_id /\ t.user_type = user}

\* the branch of read_permissions a filter takes
read_lookup(filter) ==
    IF filter.namespace.some /\ filter.object_id.some
    THEN IF filter.relation.some THEN "by_object_relation" ELSE "by_object"
    ELSE IF filter.user_id.some THEN "by_user"
    ELSE "none"

\* the rows of the lookup a filter takes
read_rows(filter) ==
    CASE read_lookup(filter) = "by_object_relation" ->
            find_tuples_by_object_relation(relation_tuples, filter.namespace.v,
                                           filter.object_id.v, filter.relation.v)
      [] read_lookup(filter) = "by_object" ->
            find_tuples_by_object(relation_tuples, filter.namespace.v, filter.object_id.v)
      [] read_lookup(filter) = "by_user" ->
            find_user_memberships(user_memberships, filter.user_id.v)
      [] OTHER -> {}

Optional(values) == {None} \cup {Some(x) : x \in values}

ReadFilters ==
    {RelationTupleFilter(ns, oid, rel, ut, uid) :
        ns \in Optional({documents, group}), oid \in Optional({doc1, grpB}),
        rel \in Optional({viewer, member}), ut \in Optional({user}),
        uid \in Optional({alice})}

\* POST /read: the lookup, then the read zookie (a failed generate falls
\* back to Zookie::new()), or 400 without a lookup, or 500 on a store error
ReadPermissions ==
    /\ \E filter \in ReadFilters, query_ok \in BOOLEAN, cache_ok \in BOOLEAN :
          LET lookup == read_lookup(filter)
              status == IF lookup = "none" THEN 400 ELSE IF query_ok THEN 200 ELSE 500
          IN  /\ lookup = "none" => query_ok
              /\ status # 200 => cache_ok
              /\ IF status = 200
                 THEN Generate(cache_ok)
                 ELSE UNCHANGED <<last_timestamp, latest_zookie>>
              /\ call' = [fn |-> "read_permissions", filter |-> filter,
                          lookup |-> lookup, status |-> status,
                          tuples |-> IF status = 200 THEN read_rows(filter) ELSE {}]
    /\ UNCHANGED <<clock, gen, issued, validated>>
    /\ UNCHANGED <<relation_tuples, evalVars, serviceVars, batchVars, storeVars, wr>>

ReadInit ==
    /\ relation_tuples \in SUBSET StoreTuples
    /\ user_memberships = relation_tuples
    /\ object_permissions = relation_tuples
    /\ relation_index = relation_tuples
    /\ changelog = <<>>
    /\ last_ok = << >>
    /\ store_calls = 0
    /\ ServiceIdle
    /\ wr = WriteIdle
    /\ call = NoCall
    /\ batch = BatchIdle
    /\ sub = << >>
    /\ ZookieIdle
    /\ EvalIdle

ReadNext == ReadPermissions \/ Tick

SpecRead == ReadInit /\ [][ReadNext]_vars

----------------------------------------------------------------------------
(* Properties of read_permissions (SpecRead) *)

\* user_id is set and namespace, object_id and relation are not
UserIdAlone(filter) ==
    /\ filter.user_id.some
    /\ ~filter.namespace.some
    /\ ~filter.object_id.some
    /\ ~filter.relation.some

\* C26: a read with namespace and object_id set is served from the by-object
\* index (by-object-relation when relation is set too); otherwise a read
\* with user_id alone is served from the by-user index; every other filter
\* is rejected with a validation error and no store lookup
C26_ReadFilterRules ==
    call.fn = "read_permissions" =>
        LET filter == call.filter
        IN  IF filter.namespace.some /\ filter.object_id.some
            THEN call.lookup = IF filter.relation.some THEN "by_object_relation"
                               ELSE "by_object"
            ELSE IF UserIdAlone(filter)
            THEN call.lookup = "by_user"
            ELSE call.lookup = "none" /\ call.status = 400

\* what read_permissions does: user_id decides whenever namespace and
\* object_id are not both set, whatever else the filter holds
ReadFilterAsCoded ==
    call.fn = "read_permissions" =>
        LET filter == call.filter
        IN  /\ filter.namespace.some /\ filter.object_id.some =>
                  call.lookup = IF filter.relation.some THEN "by_object_relation"
                                ELSE "by_object"
            /\ ~(filter.namespace.some /\ filter.object_id.some) /\ filter.user_id.some =>
                  call.lookup = "by_user"
            /\ ~(filter.namespace.some /\ filter.object_id.some) /\ ~filter.user_id.some =>
                  call.lookup = "none" /\ call.status = 400 /\ call.tuples = {}

\* a read filtered on a namespace and a user answers 200 with a tuple of
\* another namespace
ReadIgnoresNamespace ==
    /\ call.fn = "read_permissions"
    /\ call.status = 200
    /\ call.filter.namespace.some
    /\ \E t \in call.tuples : t.namespace # call.filter.namespace.v

----------------------------------------------------------------------------
(* Properties of the cache hit of check_permission (Spec) *)

\* task t takes the cache-hit return of check_permission in this step
CacheHitStep(t) ==
    /\ proc[t].pc = "cache_get"
    /\ proc'[t].pc = "done"
    /\ proc'[t].hit

\* C27: on a cache hit, check returns the cached allowed value with the
\* current request's snapshot zookie, not the entry's original_zookie, and
\* neither modifies the cache entry nor touches the tuple store
C27_CacheHit ==
    [][\A t \in Tasks :
          CacheHitStep(t) =>
              LET key == check_permission_key(proc[t].request)
              IN  /\ key \in DOMAIN cache
                  /\ proc'[t].status = 200
                  /\ proc'[t].allowed = cache[key].allowed
                  /\ proc'[t].response_zookie = to_string(proc[t].snapshot_zookie)
                  /\ cache' = cache
                  /\ relation_tuples' = relation_tuples
                  /\ UNCHANGED storeVars]_vars

\* a check was answered from an entry cached under an older zookie: the
\* response carries the newer snapshot zookie, the entry is as it was
C27_Witness ==
    \E t \in Tasks :
        /\ proc[t].pc = "done"
        /\ proc[t].kind = "check"
        /\ proc[t].hit
        /\ proc[t].status = 200
        /\ proc[t].hit_zookie # proc[t].response_zookie
        /\ proc[t].response_zookie = to_string(proc[t].snapshot_zookie)
        /\ check_permission_key(proc[t].request) \in DOMAIN cache
        /\ cache[check_permission_key(proc[t].request)].original_zookie = proc[t].hit_zookie

----------------------------------------------------------------------------
(* Properties of the zookie:latest slot (SpecZookie) *)

\* get_latest_cached_zookie when Redis answers: the slot parsed, or None
get_latest_cached_zookie(slot) ==
    IF slot.present /\ from_string(slot.token).ok
    THEN Some(from_string(slot.token).zookie)
    ELSE None

\* the zookies generate has returned so far
IssuedOk == {i \in 1..Len(issued) : issued[i].ok}

\* C28: after any sequence of generate calls, concurrent ones included, the
\* slot zookie:latest holds the issued zookie of the greatest
\* timestamp_micros, and get_latest_cached_zookie returns it
C28_LatestIsGreatest ==
    ((\A t \in Tasks : gen[t].pc = "idle") /\ IssuedOk # {}) =>
        LET latest == get_latest_cached_zookie(latest_zookie)
        IN  /\ latest.some
            /\ \A i \in IssuedOk : latest.v.timestamp_micros >= issued[i].timestamp_micros
            /\ \E i \in IssuedOk : latest.v.timestamp_micros = issued[i].timestamp_micros

\* what the code keeps: the slot holds the zookie of the call whose cache
\* write came last
LatestIsLastWritten ==
    IssuedOk # {} =>
        LET last   == CHOOSE i \in IssuedOk : \A j \in IssuedOk : j <= i
            latest == get_latest_cached_zookie(latest_zookie)
        IN  latest.some /\ latest.v.timestamp_micros = issued[last].timestamp_micros

\* calls that do not overlap leave the greatest timestamp in the slot
SequentialLatestIsGreatest ==
    ((\A t \in Tasks : gen[t].pc = "idle")
         /\ IssuedOk # {} /\ \A i \in 1..Len(issued) : issued[i].began = i - 1) =>
        \A i \in IssuedOk :
            get_latest_cached_zookie(latest_zookie).v.timestamp_micros
                >= issued[i].timestamp_micros

----------------------------------------------------------------------------
(* permission_checker.rs: the evaluator with the implied relations taken in *)
(* any order, as the userset rows already are (SpecOrder)                   *)

\* a sequence without its i-th element
Without(s, i) == SubSeq(s, 1, i - 1) \o SubSeq(s, i + 1, Len(s))

\* check_inherited_permissions with the loop over inherited_permissions
\* running in an arbitrary order
EvalInheritedAnyOrder ==
    /\ ev_stack # <<>>
    /\ Head(ev_stack).stage = "inherited"
    /\ LET f == Head(ev_stack)
       IN  IF f.perms = <<>>
           THEN ev_stack' = <<[f EXCEPT !.stage = "userset",
                                 !.rows = find_tuples_by_object_relation(relation_tuples,
                                             f.namespace, f.object_id, f.relation)]>>
                            \o Tail(ev_stack)
           ELSE \E i \in 1..Len(f.perms) :
                   ev_stack' = <<Frame(f.namespace, f.object_id, f.perms[i]),
                                 [f EXCEPT !.perms = Without(f.perms, i)]>> \o Tail(ev_stack)
    /\ UNCHANGED <<relation_tuples, ev_req, ev_visited, ev_result, ev_log>>
    /\ UNCHANGED <<zookieVars, serviceVars, batchVars, call, storeVars, wr>>

OrderNext == EvalEnter \/ EvalInheritedAnyOrder \/ EvalUserset

\* the requests of EvalRequests whose loop has at most three relations
OrderRequests == {r \in EvalRequests : r.relation # owner}

OrderInit == EvalInit /\ ev_req \in OrderRequests

SpecOrder == OrderInit /\ [][OrderNext]_vars

----------------------------------------------------------------------------
(* Properties of the evaluator under every iteration order (SpecOrder) *)

\* C30: the allowed value of an uncached check does not depend on the order
\* of the userset rows or of the implied relations: every order ends with
\* the value the evaluation in the coded order gives, shared visited set
\* notwithstanding
C30_OrderIndependent ==
    EvalDone => ((ev_result = "allowed") = check_permission_uncached(relation_tuples, ev_req))

\* a check of editor took viewer first, which failed and stayed in the
\* visited set, and was allowed through a userset row of editor
C30_Witness ==
    /\ ev_result = "allowed"
    /\ ev_req.relation = editor
    /\ Len(ev_log) >= 4
    /\ ev_log[2] = check_key(ev_req.namespace, ev_req.object_id, viewer,
                             ev_user_type, ev_req.user_id)
    /\ check_key(ev_req.namespace, ev_req.object_id, viewer, ev_user_type, ev_req.user_id)
          \in ev_visited

\* a denied check whose two userset rows were both followed, in the order
\* the coded evaluation does not take
C30_WitnessRows ==
    /\ ev_result = "denied"
    /\ Cardinality({t \in find_tuples_by_object_relation(relation_tuples, ev_req.namespace,
                        ev_req.object_id, ev_req.relation) : is_userset_row(t)}) >= 2
    /\ Len(ev_log) >= 3

----------------------------------------------------------------------------
(* Properties of the order of the evaluator's lookups (SpecEval) *)

\* the key of a frame of the evaluation in progress
FrameKey(f) ==
    check_key(f.namespace, f.object_id, f.relation, ev_user_type, ev_req.user_id)

\* this step calls find_direct_tuple
DirectLookupStep == ev_log' # ev_log

\* this step calls find_tuples_by_object_relation
RowsLookupStep ==
    /\ Head(ev_stack).stage = "inherited"
    /\ ev_stack' # <<>>
    /\ Len(ev_stack') = Len(ev_stack)
    /\ Head(ev_stack').stage = "userset"

\* this step enters check_permission_recursive for a child
RecursionStep == Len(ev_stack') > Len(ev_stack)

\* C31: at each node the direct lookup comes first, then the inherited
\* relations, then the userset rows; the first step that yields true ends
\* the check with true and no further tuple-store lookup is issued
C31_OrderAndShortCircuit ==
    [][/\ ev_result = "pending"
       /\ ev_stack # <<>>
       /\ LET f == Head(ev_stack)
          IN  /\ DirectLookupStep =>
                    /\ f.stage = "enter"
                    /\ ev_log' = Append(ev_log, FrameKey(f))
                    /\ find_direct_tuple(relation_tuples,
                          Tuple(f.namespace, f.object_id, f.relation,
                                ev_user_type, ev_req.user_id))
                         => (ev_result' = "allowed" /\ ev_stack' = <<>>)
              /\ RecursionStep =>
                    /\ FrameKey(f) \in ev_visited
                    /\ f.stage \in {"inherited", "userset"}
                    /\ f.stage = "userset" => f.perms = <<>>
              /\ RowsLookupStep =>
                    /\ FrameKey(f) \in ev_visited
                    /\ f.perms = <<>>
              /\ ev_result' = "allowed" => ev_stack' = <<>>]_vars

\* a check was allowed by a direct tuple found below the request while a
\* userset row of the request was never followed
C31_Witness ==
    /\ ev_result = "allowed"
    /\ ev_stack = <<>>
    /\ Len(ev_log) >= 2
    /\ \E t \in find_tuples_by_object_relation(relation_tuples, ev_req.namespace,
                                                ev_req.object_id, ev_req.relation) :
          /\ is_userset_row(t)
          /\ parse_userset(t.user_id).ok
          /\ LET p == parse_userset(t.user_id)
             IN  check_key(p.namespace, p.object_id, p.relation, ev_user_type,
                           ev_req.user_id) \notin ev_visited

----------------------------------------------------------------------------
(* Properties of the userset rows that do not parse (SpecEval) *)

\* subject_id is NS:OBJ#REL: a ':' and, after it, a '#'
ParsesAsUserset(user_id) ==
    \E i \in 1..Len(user_id) :
        /\ user_id[i] = ":"
        /\ \E j \in (i + 1)..Len(user_id) : user_id[j] = "#"

\* the userset rows of a store whose subject_id does not parse
MalformedRows(store) ==
    {t \in store : t.user_type = userset /\ ~ParsesAsUserset(t.user_id)}

\* this step of the userset loop takes a row that does not parse
SkipStep ==
    /\ ev_stack # <<>>
    /\ Head(ev_stack).stage = "userset"
    /\ ev_stack' # <<>>
    /\ \E t \in MalformedRows(relation_tuples) \cap Head(ev_stack).rows :
          Head(ev_stack').rows = Head(ev_stack).rows \ {t}
    /\ Head(ev_stack').stage = "userset"

\* C32: a userset row whose subject_id does not parse as NS:OBJ#REL is
\* skipped: it gives neither an allow nor an error, and the evaluation goes
\* on with the remaining rows of the same object and relation
C32_MalformedRowSkipped ==
    /\ [](EvalDone =>
             /\ ev_result \in {"allowed", "denied"}
             /\ (ev_result = "allowed") =
                   check_permission_uncached(relation_tuples \ MalformedRows(relation_tuples),
                                             ev_req))
    /\ [][SkipStep =>
             /\ ev_result' = ev_result
             /\ ev_visited' = ev_visited
             /\ ev_log' = ev_log
             /\ Tail(ev_stack') = Tail(ev_stack)
             /\ [Head(ev_stack') EXCEPT !.rows = {}] = [Head(ev_stack) EXCEPT !.rows = {}]]_vars

\* the loop over the rows of the request has passed a row that does not
\* parse and still holds a row that does
C32_Witness ==
    /\ ev_result = "pending"
    /\ Len(ev_stack) = 1
    /\ Head(ev_stack).stage = "userset"
    /\ \E t \in MalformedRows(relation_tuples) :
          /\ t.namespace = ev_req.namespace
          /\ t.object_id = ev_req.object_id
          /\ t.relation = ev_req.relation
          /\ t \notin Head(ev_stack).rows
    /\ \E t \in Head(ev_stack).rows : is_userset_row(t) /\ parse_userset(t.user_id).ok

----------------------------------------------------------------------------
(* Properties of repeated store writes (SpecStore) *)

\* the four tables that hold tuples
Indices == <<relation_tuples, user_memberships, object_permissions, relation_index>>

\* this step is a call of insert_tuple / delete_tuple on t that returned Ok
InsertOkStep(t) ==
    /\ store_calls' = store_calls + 1
    /\ call'.fn = "insert_tuple" /\ call'.ok /\ call'.tuple = t

DeleteOkStep(t) ==
    /\ store_calls' = store_calls + 1
    /\ call'.fn = "delete_tuple" /\ call'.ok /\ call'.tuple = t

PresentInAll(t) == \A i \in 1..4 : t \in Indices[i]

AbsentFromAll(t) == \A i \in 1..4 : t \notin Indices[i]

\* C33: store writes are idempotent by tuple identity: a second insert(t)
\* leaves the four indices as the first left them, and a second delete(t),
\* or a delete(t) of an absent tuple, leaves them as one delete does and
\* returns success
C33_IdempotentWrites ==
    [][\A t \in StoreTuples :
          /\ InsertOkStep(t) =>
                /\ Indices' = [i \in 1..4 |-> Indices[i] \cup {t}]
                /\ PresentInAll(t) => Indices' = Indices
                /\ (call.fn = "insert_tuple" /\ call.ok /\ call.tuple = t) => Indices' = Indices
          /\ DeleteOkStep(t) =>
                /\ Indices' = [i \in 1..4 |-> Indices[i] \ {t}]
                /\ AbsentFromAll(t) => Indices' = Indices
                /\ (call.fn = "delete_tuple" /\ call.ok /\ call.tuple = t) => Indices' = Indices]_vars

\* insert_tuple(t) returned Ok twice in a row: the tuple is once in each table
C33_Witness ==
    /\ store_calls = 2
    /\ Len(changelog) = 2
    /\ changelog[1] = changelog[2]
    /\ changelog[1].operation = "INSERT"
    /\ call.fn = "insert_tuple" /\ call.ok
    /\ \A i \in 1..4 : Indices[i] = {changelog[1].tuple}

\* delete_tuple of a tuple no table holds returned Ok, twice
C33_WitnessDelete ==
    /\ store_calls = 2
    /\ Len(changelog) = 2
    /\ changelog[1] = changelog[2]
    /\ changelog[1].operation = "DELETE"
    /\ call.fn = "delete_tuple" /\ call.ok
    /\ \A i \in 1..4 : Indices[i] = {}

----------------------------------------------------------------------------
(* Properties of the changelog (SpecStore) *)

\* C34: the changelog is append-only: each successful insert or delete
\* appends exactly one entry with the tuple's identity and the operation
\* INSERT or DELETE, after the four index writes of that operation, and no
\* step removes or changes an entry
C34_ChangelogAppendOnly ==
    [][/\ Len(changelog') >= Len(changelog)
       /\ SubSeq(changelog', 1, Len(changelog)) = changelog
       /\ Len(changelog') <= Len(changelog) + 1
       /\ \A t \in StoreTuples :
             /\ InsertOkStep(t) =>
                   /\ changelog' = Append(changelog, [tuple |-> t, operation |-> "INSERT"])
                   /\ \A i \in 1..4 : t \in Indices'[i]
             /\ DeleteOkStep(t) =>
                   /\ changelog' = Append(changelog, [tuple |-> t, operation |-> "DELETE"])
                   /\ \A i \in 1..4 : t \notin Indices'[i]
       /\ changelog' # changelog =>
             \E t \in StoreTuples : InsertOkStep(t) \/ DeleteOkStep(t)]_vars

\* an insert and then a delete of one tuple returned Ok and a third call
\* failed: two entries, in that order
C34_Witness ==
    /\ store_calls = 3
    /\ Len(changelog) = 2
    /\ changelog[1].operation = "INSERT"
    /\ changelog[2].operation = "DELETE"
    /\ changelog[1].tuple = changelog[2].tuple
    /\ call.fn = "delete_tuple" /\ call.ok

----------------------------------------------------------------------------
(* The check and write handlers run one request at a time, every store and *)
(* cache call answering (SpecSequential)                                    *)

MaxSeqRequests == 3   \* requests per run

\* POST /check without a zookie, start to end: the cached answer, or the
\* evaluator's answer, which is then cached
SeqCheck ==
    /\ served < MaxSeqRequests
    /\ \E request \in SvcRequests :
          LET key == check_permission_key(request)
              hit == key \in DOMAIN cache
              response ==
                  IF hit
                  THEN to_check_response(cache[key], to_string(Generated))
                  ELSE CheckResponse(check_permission_uncached(relation_tuples, request),
                                     to_string(Generated))
          IN  /\ cache' = IF hit THEN cache
                          ELSE cache_set(cache, key,
                                         CachedCheckResult(response.allowed, response.zookie))
              /\ call' = [fn |-> "check", request |-> request, hit |-> hit,
                          allowed |-> response.allowed]
    /\ Generate(TRUE)
    /\ served' = served + 1
    /\ UNCHANGED <<relation_tuples, proc, last_write, clock, gen, issued, validated>>
    /\ UNCHANGED <<evalVars, batchVars, storeVars, wr>>

\* POST /write with one update, start to end: the store operation, the
\* invalidation of the object and, for a user subject, of the user, the zookie
SeqWrite ==
    /\ served < MaxSeqRequests
    /\ \E operation \in Operations, tuple \in SvcTuples :
          /\ relation_tuples' = apply(relation_tuples, operation, tuple)
          /\ cache' = delete_patterns(cache,
                         {object_permission_pattern(tuple.namespace, tuple.object_id)}
                         \cup {user_permission_pattern(u) : u \in affected_users_of(tuple)})
          /\ call' = [fn |-> "write", operation |-> operation, tuple |-> tuple]
    /\ Generate(TRUE)
    /\ served' = served + 1
    /\ UNCHANGED <<proc, last_write, clock, gen, issued, validated>>
    /\ UNCHANGED <<evalVars, batchVars, storeVars, wr>>

SequentialInit ==
    /\ relation_tuples \in SUBSET SvcTuples
    /\ ServiceIdle
    /\ ZookieIdle
    /\ EvalIdle
    /\ RestIdle

SequentialNext == SeqCheck \/ SeqWrite

SpecSequential == SequentialInit /\ [][SequentialNext]_vars

----------------------------------------------------------------------------
(* Properties of the sequential service (SpecSequential) *)

\* C35: sequential cache coherence: with requests run one at a time and no
\* failing call, every check answers as an uncached evaluation of the
\* current store does, also a check that reaches the written object through
\* userset rows only and after a write of a tuple with a userset subject
C35_SequentialCoherence ==
    call.fn = "check" =>
        call.allowed = check_permission_uncached(relation_tuples, call.request)

\* what the invalidation does keep: the answers cached for the written
\* object itself are gone after the write
WrittenObjectInvalidated ==
    call.fn = "write" =>
        \A r \in SvcRequests :
            (r.namespace = call.tuple.namespace /\ r.object_id = call.tuple.object_id)
                => check_permission_key(r) \notin DOMAIN cache

----------------------------------------------------------------------------
(* Properties of a check that runs beside a write (Spec) *)

\* the request a cache key was built from
RequestOfKey(k) == CHOOSE r \in SvcRequests : check_permission_key(r) = k

\* every request has returned
AllReturned == \A t \in Tasks : proc[t].pc \in {"idle", "done"}

\* C36: when a check runs beside a write to the same object, then once the
\* write, its invalidation included, and the check have finished, the cache
\* holds no entry of that object whose allowed differs from an uncached
\* evaluation of the store: a check that read the store before the write
\* does not leave its result behind the invalidation
C36_NoStaleEntryAfterWrite ==
    (AllReturned /\ last_write.valid /\ last_write.inval_ok /\ last_write.stable) =>
        \A o \in last_write.objects :
            \A k \in EntriesOf(o) :
                cache[k].allowed = Truth(RequestOfKey(k))

\* the same for a write during whose invalidation and response no check was
\* in progress: holds
NoStaleEntryWhenAlone ==
    (AllReturned /\ last_write.valid /\ last_write.inval_ok /\ last_write.stable
        /\ last_write.alone /\ last_write.fresh) =>
        \A o \in last_write.objects :
            \A k \in EntriesOf(o) :
                cache[k].allowed = Truth(RequestOfKey(k))

----------------------------------------------------------------------------
(* tuple_store.rs: insert_tuple and delete_tuple of one tuple running in    *)
(* two requests at once, statement by statement (SpecRace)                  *)

\* the k-th statement of insert_tuple
insert_statement(tuple, k) ==
    /\ relation_tuples'    = IF k = 1 THEN relation_tuples \cup {tuple} ELSE relation_tuples
    /\ user_memberships'   = IF k = 2 THEN user_memberships \cup {tuple} ELSE user_memberships
    /\ object_permissions' = IF k = 3 THEN object_permissions \cup {tuple}
                             ELSE object_permissions
    /\ relation_index'     = IF k = 4 THEN relation_index \cup {tuple} ELSE relation_index
    /\ changelog'          = IF k = 5 THEN Append(changelog, ChangelogEntry(tuple, "Insert"))
                             ELSE changelog

\* the k-th statement of delete_tuple
delete_statement(tuple, k) ==
    /\ relation_tuples'    = IF k = 1 THEN relation_tuples \ {tuple} ELSE relation_tuples
    /\ user_memberships'   = IF k = 2 THEN user_memberships \ {tuple} ELSE user_memberships
    /\ object_permissions' = IF k = 3 THEN object_permissions \ {tuple}
                             ELSE object_permissions
    /\ relation_index'     = IF k = 4 THEN relation_index \ {tuple} ELSE relation_index
    /\ changelog'          = IF k = 5 THEN Append(changelog, ChangelogEntry(tuple, "Delete"))
                             ELSE changelog

\* two requests begin: one inserts the tuple, the other deletes it
RaceBegin ==
    /\ call = NoCall
    /\ \E tuple \in StoreTuples :
          call' = [fn |-> "insert_and_delete", tuple |-> tuple,
                   insert_ran |-> 0, insert_failed |-> FALSE,
                   delete_ran |-> 0, delete_failed |-> FALSE]
    /\ UNCHANGED <<relation_tuples, storeVars, evalVars, zookieVars, serviceVars, batchVars, wr>>

\* the next statement of the insert_tuple call: it runs, or fails and ends the call
RaceInsert ==
    /\ call.fn = "insert_and_delete"
    /\ ~call.insert_failed
    /\ call.insert_ran < Statements
    /\ \E statement_ok \in BOOLEAN :
          IF statement_ok
          THEN /\ insert_statement(call.tuple, call.insert_ran + 1)
               /\ call' = [call EXCEPT !.insert_ran = @ + 1]
          ELSE /\ call' = [call EXCEPT !.insert_failed = TRUE]
               /\ UNCHANGED <<relation_tuples, user_memberships, object_permissions,
                              relation_index, changelog>>
    /\ UNCHANGED <<last_ok, store_calls>>
    /\ UNCHANGED <<evalVars, zookieVars, serviceVars, batchVars, wr>>

\* the next statement of the delete_tuple call: it runs, or fails and ends the call
RaceDelete ==
    /\ call.fn = "insert_and_delete"
    /\ ~call.delete_failed
    /\ call.delete_ran < Statements
    /\ \E statement_ok \in BOOLEAN :
          IF statement_ok
          THEN /\ delete_statement(call.tuple, call.delete_ran + 1)
               /\ call' = [call EXCEPT !.delete_ran = @ + 1]
          ELSE /\ call' = [call EXCEPT !.delete_failed = TRUE]
               /\ UNCHANGED <<relation_tuples, user_memberships, object_permissions,
                              relation_index, changelog>>
    /\ UNCHANGED <<last_ok, store_calls>>
    /\ UNCHANGED <<evalVars, zookieVars, serviceVars, batchVars, wr>>

RaceNext == RaceBegin \/ RaceInsert \/ RaceDelete

SpecRace == ReadInit /\ [][RaceNext]_vars

----------------------------------------------------------------------------
(* Properties of concurrent store writes (SpecRace) *)

\* both calls have returned Ok
BothReturnedOk ==
    /\ call.fn = "insert_and_delete"
    /\ call.insert_ran = Statements
    /\ call.delete_ran = Statements

\* C37: when insert(t) and delete(t) of one tuple identity run at once in
\* two requests and both report success, the four indices agree once both
\* have finished: t is in all of them or in none
C37_IndexCoherence ==
    BothReturnedOk => (PresentInAll(call.tuple) \/ AbsentFromAll(call.tuple))

----------------------------------------------------------------------------
(* Properties of failed store writes (SpecStore) *)

\* this step is a call of insert_tuple or delete_tuple that returned Err
WriteErrStep ==
    /\ store_calls' = store_calls + 1
    /\ call'.fn \in {"insert_tuple", "delete_tuple"}
    /\ ~call'.ok

\* C38: an insert or delete that returns a database error leaves the four
\* indices as they were before the operation, so find_direct and every
\* later check answer as before the failed update
C38_UnchangedOnError ==
    [][WriteErrStep =>
          /\ Indices' = Indices
          /\ \A t \in StoreTuples :
                find_direct_tuple(relation_tuples', t) = find_direct_tuple(relation_tuples, t)]_vars

----------------------------------------------------------------------------
(* cache.rs, permission_checker.rs: the cache key and the visited key of    *)
(* requests whose fields may hold delimiter characters (SpecKeys)           *)

\* field values: a plain name, and names that hold a ':' or a '#'
KeyNames == {S("a"), <<"a", ":", "a">>, <<"a", "#", "a">>}

KeyRequests ==
    {CheckRequest(ns, oid, rel, uid, ut) :
        ns \in KeyNames, oid \in KeyNames, rel \in {S("a"), <<"a", "#", "a">>},
        uid \in {alice}, ut \in {None, Some(user)}}

\* the keys of two requests, built as the checker builds them
BuildKeys ==
    /\ \E a \in KeyRequests, b \in KeyRequests :
          call' = [fn |-> "check_permission_key", a |-> a, b |-> b,
                   key_a |-> check_permission_key(a),
                   key_b |-> check_permission_key(b),
                   visited_a |-> check_key(a.namespace, a.object_id, a.relation,
                                           unwrap_or(a.user_type, user), a.user_id),
                   visited_b |-> check_key(b.namespace, b.object_id, b.relation,
                                           unwrap_or(b.user_type, user), b.user_id)]
    /\ UNCHANGED <<relation_tuples, evalVars, zookieVars, serviceVars, batchVars, storeVars, wr>>

KeysNext == BuildKeys

SpecKeys == ZookieInit /\ [][KeysNext]_vars

----------------------------------------------------------------------------
(* Properties of the keys (SpecKeys) *)

\* two requests ask the same question
SameQuestion(a, b) ==
    /\ a.namespace = b.namespace
    /\ a.object_id = b.object_id
    /\ a.relation = b.relation
    /\ unwrap_or(a.user_type, user) = unwrap_or(b.user_type, user)
    /\ a.user_id = b.user_id

\* C39: the cache key and the visited key are injective: two requests get
\* the same key only if namespace, object_id, relation, effective
\* subject_type and subject_id are the same, delimiter characters in the
\* fields or not
C39_KeysInjective ==
    call.fn = "check_permission_key" =>
        /\ call.key_a = call.key_b => SameQuestion(call.a, call.b)
        /\ call.visited_a = call.visited_b => SameQuestion(call.a, call.b)

\* with fields free of ':', '#' and '@' the keys are injective: holds
KeysInjectiveOnPlainFields ==
    (/\ call.fn = "check_permission_key"
     /\ \A r \in {call.a, call.b} :
           \A f \in {r.namespace, r.object_id, r.relation} :
              ~Contains(f, ":") /\ ~Contains(f, "#") /\ ~Contains(f, "@")) =>
        /\ call.key_a = call.key_b => SameQuestion(call.a, call.b)
        /\ call.visited_a = call.visited_b => SameQuestion(call.a, call.b)

----------------------------------------------------------------------------
(* zookie.rs: zookies that generate_zookie returned, presented back to      *)
(* validate_and_get_snapshot_time at a later time (SpecPresent)             *)

\* the string generate's caller got for the i-th returned zookie
issued_token(i) == to_string(Zookie(issued[i].timestamp_micros, NodeMetadata))

\* a client presents a zookie that generate_zookie has returned
ValidateIssued ==
    /\ \E i \in 1..Len(issued) :
          /\ issued[i].ok
          /\ validated' = [called |-> TRUE, token |-> issued_token(i), now |-> clock,
                           result |-> validate_token(issued_token(i), clock)]
    /\ UNCHANGED <<clock, last_timestamp, latest_zookie, gen, issued>>
    /\ UNCHANGED <<relation_tuples, evalVars, serviceVars, restVars>>

PresentNext ==
    \/ \E t \in Tasks : GenBegin(t)
    \/ \E t \in Tasks : GenFetchMax(t)
    \/ \E t \in Tasks : GenFetchAdd(t)
    \/ \E t \in Tasks : GenStamp(t)
    \/ \E t \in Tasks : GenCache(t)
    \/ Tick
    \/ ValidateIssued

SpecPresent == ZookieInit /\ [][PresentNext]_vars

----------------------------------------------------------------------------
(* Properties of presenting issued zookies (SpecPresent) *)

\* C40: a zookie generate returned is accepted when presented back at any
\* later time within one hour: it is never rejected as a future zookie and
\* the snapshot returned carries its timestamp_micros, so the snapshot time
\* of the read is at least the timestamp of the write
C40_IssuedZookieAccepted ==
    validated.called =>
        /\ validated.result.error # "validation: Future zookie not allowed"
        /\ validated.now - validated.token.timestamp_micros <= max_age_micros =>
              /\ validated.result.ok
              /\ validated.result.zookie.timestamp_micros = validated.token.timestamp_micros
              /\ \E i \in 1..Len(issued) :
                    /\ issued[i].ok
                    /\ validated.result.zookie.timestamp_micros >= issued[i].timestamp_micros

\* a zookie presented exactly one hour after it was stamped was accepted
C40_Witness ==
    /\ validated.called
    /\ validated.result.ok
    /\ validated.now - validated.token.timestamp_micros = max_age_micros
    /\ \E i \in 1..Len(issued) : issued[i].ok /\ issued_token(i) = validated.token

\* a zookie presented in the tick it was stamped in was accepted
C40_WitnessSameTick ==
    /\ validated.called
    /\ validated.result.ok
    /\ validated.now = validated.token.timestamp_micros

====
